---- MODULE Spec2Model ----
(***************************************************************************)
(* Verification model of the resilient session core of FreeCluely's        *)
(* python-backend:                                                         *)
(*   ai/connection_manager.py      AIConnectionManager  (Chat)             *)
(*   ai/tag_websocket_manager.py   TagWebSocketManager  (Tag Sync)         *)
(* Every coroutine is cut at its await points: one action is the code that *)
(* runs between two suspension points of the single-threaded event loop.   *)
(* Strings are sequences of characters, so that concatenation is \o and    *)
(* Python truthiness of a string is "non-empty".                           *)
(***************************************************************************)
EXTENDS Integers, Sequences, FiniteSets, TLC

VARIABLES ai, aiReq, aiLoop, aiEnv, tg, tgThread, tgEnv, bk, cs, csThread, csEnv

chatVars == <<ai, aiReq, aiLoop, aiEnv>>
tagVars == <<tg, tgThread, tgEnv>>
ctxVars == <<cs, csThread, csEnv>>
nonChat == <<tg, tgThread, tgEnv, bk, cs, csThread, csEnv>>
nonTag == <<ai, aiReq, aiLoop, aiEnv, bk, cs, csThread, csEnv>>
nonCtx == <<ai, aiReq, aiLoop, aiEnv, tg, tgThread, tgEnv, bk>>
vars == <<ai, aiReq, aiLoop, aiEnv, tg, tgThread, tgEnv, bk, cs, csThread, csEnv>>

(***************************************************************************)
(* Bounds of the model.                                                    *)
(***************************************************************************)
MaxRequests == 2
MaxChunks == 3
MaxLoops == 2
MaxFaults == 1

MaxConnects == 2
MaxGen == 3
MaxConnGen == 1
MaxResumeGen == 2
MaxCsGen == 2
MaxCsHostCalls == 3
MaxCsFrames == 2
MaxHostCalls == 2
MaxFrames == 2
MaxFetchLen == 2
MaxDisconnects == 2
MaxConnFailures == 2

(***************************************************************************)
(* Values.                                                                 *)
(***************************************************************************)
\* Python's None for an Optional[str]: a value no string over Chars equals.
None == <<"None">>
Chars == {"a", "b"}
Tokens == {<<"a">>, <<"b">>}
Texts == {<<"q">>}
Callers == 1..MaxRequests
NoCaller == 0
LoopIds == 1..MaxLoops
NoTask == 0

\* Python truthiness of an Optional[str].
Truthy(s) == s # None /\ s # <<>>

BoolStr(b) == IF b THEN <<"True">> ELSE <<"False">>

\* The backoff bookkeeping of the reconnection-delay specification.
BkIdle == [chat_n |-> 0, chat_delay |-> 0, chat_prev |-> 0,
           tag_n |-> 0, tag_delay |-> 0, tag_prev |-> 0]

\* One callback invocation as the registered subscriber sees it; req is the
\* request whose code path made the call (0: none).
Call(cb, arg, req) == [cb |-> cb, arg |-> arg, req |-> req]

(***************************************************************************)
(* Chat: AIConnectionManager (ai/connection_manager.py).                   *)
(*                                                                         *)
(* ai    the manager's fields, plus calls: the callback invocations in the *)
(*       order the registered subscribers receive them, and event_set: the *)
(*       flag of the asyncio.Event each request created (an Event object   *)
(*       is named by the request that created it).                         *)
(* aiReq one record per caller of send_message / send_message_streaming:   *)
(*       where its coroutine is suspended, and what the provider has       *)
(*       yielded to its receive loop so far.                               *)
(***************************************************************************)
Emit(s, cb, arg, r) == [s EXCEPT !.calls = Append(@, Call(cb, arg, r))]

AIInit(avail, key) ==
    [ is_connected |-> FALSE,
      is_receiving |-> FALSE,
      should_maintain_connection |-> TRUE,
      openai_available |-> avail,
      api_key |-> key,
      openai_client |-> FALSE,
      message_stream |-> <<>>,
      message_history |-> <<>>,
      last_messages |-> <<>>,
      current_response_event |-> NoCaller,
      current_response_content |-> <<>>,
      reconnection_attempts |-> 0,
      generation_stopped |-> FALSE,
      health_check_task |-> NoTask,
      conn_calls |-> <<>>,
      event_set |-> [c \in Callers |-> FALSE],
      calls |-> <<>> ]

ReqIdle ==
    [ pc |-> "idle", kind |-> "none", args |-> <<>>, api_messages |-> <<>>,
      provided |-> <<>>, stop_k |-> -1, wait_on |-> NoCaller, result |-> None ]

\* def stop_generation
stop_generation(s) ==
    Emit([s EXCEPT !.generation_stopped = TRUE],
         "on_thinking_changed", BoolStr(FALSE), NoCaller)

\* Mutant of create_enhanced_prompt: the browser URL section comes before the
\* selected text section.
create_enhanced_prompt_url_first(text, ocr_text, selected_text, browser_url, smarter) ==
    text
    \o (IF Truthy(ocr_text) THEN <<"\n\nScreen OCR Text: ">> \o ocr_text ELSE <<>>)
    \o (IF Truthy(browser_url) THEN <<"\n\nBrowser URL: ">> \o browser_url ELSE <<>>)
    \o (IF Truthy(selected_text) THEN <<"\n\nSelected Text: ">> \o selected_text ELSE <<>>)
    \o (IF smarter
          THEN <<"\n\nPlease provide a detailed and comprehensive analysis.">>
          ELSE <<>>)

\* def _create_enhanced_prompt: the labels are single characters of the model.
create_enhanced_prompt(text, ocr_text, selected_text, browser_url, smarter) ==
    text
    \o (IF Truthy(ocr_text) THEN <<"\n\nScreen OCR Text: ">> \o ocr_text ELSE <<>>)
    \o (IF Truthy(selected_text) THEN <<"\n\nSelected Text: ">> \o selected_text ELSE <<>>)
    \o (IF Truthy(browser_url) THEN <<"\n\nBrowser URL: ">> \o browser_url ELSE <<>>)
    \o (IF smarter
          THEN <<"\n\nPlease provide a detailed and comprehensive analysis.">>
          ELSE <<>>)

\* message_history[-10:]
ApiWindow == 10
LastN(q, n) == IF Len(q) <= n THEN q ELSE SubSeq(q, Len(q) - n + 1, Len(q))

\* Mutant of prepare_api_messages: the whole history is sent.
prepare_api_messages_whole(s) ==
    [i \in 1..Len(s.message_history) |->
        [role |-> s.message_history[i].role,
         content |-> s.message_history[i].content]]

\* def _prepare_api_messages (without an image)
prepare_api_messages(s) ==
    [i \in 1..Len(LastN(s.message_history, ApiWindow)) |->
        [role |-> LastN(s.message_history, ApiWindow)[i].role,
         content |-> LastN(s.message_history, ApiWindow)[i].content]]

\* send_message_streaming lines 203-257 / send_message lines 557-604: the code
\* between the connection check and the await of the provider request.
\* a = <<text, ocr_text, selected_text, browser_url, smarter_analysis_enabled>>
send_message_begin(s, c, kind, a) ==
    LET s1 == IF kind = "streaming"
                THEN Emit([s EXCEPT !.generation_stopped = FALSE],
                          "on_thinking_changed", BoolStr(TRUE), c)
                ELSE s
        lm1 == IF s1.message_stream # <<>>
                 THEN Append(s1.last_messages,
                             [message |-> s1.message_stream, is_user |-> FALSE])
                 ELSE s1.last_messages
        lm2 == Append(lm1, [message |-> a[1], is_user |-> TRUE])
        user == [role |-> "user",
                 content |-> create_enhanced_prompt(a[1], a[2], a[3], a[4], a[5])]
    IN  [s1 EXCEPT !.last_messages = lm2,
                   !.message_stream = <<>>,
                   !.message_history = Append(@, user),
                   !.is_receiving = TRUE,
                   !.current_response_event = c,
                   !.event_set[c] = FALSE,
                   !.current_response_content = <<>>]

\* Mutant of StreamContent: on_chunk_received is handed the accumulated stream
\* instead of the token just received.
StreamContent_accumulated(s, c, kind, ch) ==
    IF ch.content = None THEN s
    ELSE LET s1 == [s EXCEPT !.message_stream = @ \o ch.content,
                             !.current_response_content = @ \o ch.content]
             s2 == IF kind = "streaming"
                     THEN Emit(s1, "on_chunk_received", s1.message_stream, c)
                     ELSE s1
         IN  Emit(s2, "on_message_received", s2.message_stream, c)

\* One run of the body of "async for chunk in stream" of
\* _stream_openai_response_realtime (kind streaming) or _stream_openai_response:
\* the "delta.content is not None" branch, then the "finish_reason is not None"
\* branch.
StreamContent(s, c, kind, ch) ==
    IF ch.content = None THEN s
    ELSE LET s1 == [s EXCEPT !.message_stream = @ \o ch.content,
                             !.current_response_content = @ \o ch.content]
             s2 == IF kind = "streaming"
                     THEN Emit(s1, "on_chunk_received", ch.content, c)
                     ELSE s1
         IN  Emit(s2, "on_message_received", s2.message_stream, c)

\* Mutant of StreamFinish: the assistant message is not added to the history.
StreamFinish_unrecorded(s, c, kind) ==
    LET s1 == [s EXCEPT !.is_receiving = FALSE]
        s2 == IF kind = "streaming"
                THEN Emit(Emit(s1, "on_thinking_changed", BoolStr(FALSE), c),
                          "on_response_complete", s1.message_stream, c)
                ELSE s1
        s5 == Emit(s2, "on_message_received", s2.message_stream, c)
    IN  IF s5.current_response_event = NoCaller THEN s5
        ELSE [s5 EXCEPT !.event_set[s5.current_response_event] = TRUE]

StreamFinish(s, c, kind) ==
    LET s1 == [s EXCEPT !.is_receiving = FALSE]
        s2 == IF kind = "streaming"
                THEN Emit(s1, "on_thinking_changed", BoolStr(FALSE), c)
                ELSE s1
        s3 == [s2 EXCEPT !.message_history =
                  Append(@, [role |-> "assistant", content |-> s2.message_stream])]
        s4 == IF kind = "streaming"
                THEN Emit(s3, "on_response_complete", s3.message_stream, c)
                ELSE s3
        s5 == Emit(s4, "on_message_received", s4.message_stream, c)
    IN  IF s5.current_response_event = NoCaller THEN s5
        ELSE [s5 EXCEPT !.event_set[s5.current_response_event] = TRUE]

\* Mutant of StopObserved: the loop never looks at the cancellation flag.
StopObserved_never(s, kind) == FALSE

\* "if self._generation_stopped: break" exists in the realtime loop only.
StopObserved(s, kind) == kind = "streaming" /\ s.generation_stopped

stream_chunk(s, c, kind, ch) ==
    IF StopObserved(s, kind) THEN s
    ELSE LET s1 == StreamContent(s, c, kind, ch)
         IN  IF ch.finish THEN StreamFinish(s1, c, kind) ELSE s1

stream_breaks(s, kind, ch) == StopObserved(s, kind) \/ ch.finish

\* Mutant of stream_error: is_receiving is left as it was.
stream_error_receiving(s, c, kind) ==
    IF kind = "streaming"
      THEN Emit(Emit(s, "on_thinking_changed", BoolStr(FALSE), c),
                "on_thinking_changed", BoolStr(FALSE), c)
      ELSE s

\* The except clause of the stream function followed by the except clause of
\* its caller (lines 333-338 then 261-265; 659-662 then 608-610).
stream_error(s, c, kind) ==
    LET s1 == [s EXCEPT !.is_receiving = FALSE]
    IN  IF kind = "streaming"
          THEN Emit(Emit(s1, "on_thinking_changed", BoolStr(FALSE), c),
                    "on_thinking_changed", BoolStr(FALSE), c)
          ELSE s1

(***************************************************************************)
(* Chat connection: connect, disconnect, the health-check loop and its     *)
(* reconnection.  aiLoop holds one record per health-check task ever       *)
(* created by asyncio.create_task; a task that is "none" does not exist.   *)
(***************************************************************************)
MaxReconnectionAttempts == 10
ChatDelayCap == 60
ReconnectionDelay == 1

\* on_connection_changed(v)
EmitConn(s, v) == [s EXCEPT !.conn_calls = Append(@, v)]

\* connect() lines 342-354: the two early returns, which raise nothing.
connect_refused(s) == ~s.openai_available \/ ~s.api_key

\* connect() up to its await: either an early return or the new client.
connect_enter(s) ==
    IF connect_refused(s)
      THEN EmitConn([s EXCEPT !.is_connected = FALSE], FALSE)
      ELSE [s EXCEPT !.openai_client = TRUE]

\* connect() after "await self._test_api_connection()": lines 368-379 when the
\* test passed (task: the health-check task created, NoTask when none is),
\* lines 381-386 when it raised.
connect_done(s, ok, task) ==
    IF ok
      THEN EmitConn([s EXCEPT !.is_connected = TRUE,
                              !.reconnection_attempts = 0,
                              !.health_check_task =
                                  IF s.should_maintain_connection THEN task ELSE @],
                    TRUE)
      ELSE EmitConn([s EXCEPT !.is_connected = FALSE], FALSE)

FreeLoops == {l \in LoopIds : aiLoop[l].pc = "none"}
NewTask == IF FreeLoops = {} THEN NoTask ELSE CHOOSE l \in FreeLoops : TRUE

LoopNone == [pc |-> "none", wait |-> 0]

\* asyncio.create_task(self._health_check_loop()) of connect() line 373
SpawnHealth(loops, s, ok) ==
    IF ok /\ s.should_maintain_connection
      THEN [loops EXCEPT ![NewTask] = [pc |-> "start", wait |-> 0]]
      ELSE loops

\* The while condition of _health_check_loop.
health_loop_continues(s) == s.should_maintain_connection /\ s.is_connected

\* def _attempt_reconnection, lines 457-465.
reconnection_exhausted(s) == s.reconnection_attempts >= MaxReconnectionAttempts

Min(a, b) == IF a <= b THEN a ELSE b
Pow2(n) == 2 ^ n

\* Mutant of chat_wait_time: the delay without its cap.
chat_wait_time_uncapped(attempts) == ReconnectionDelay * Pow2(attempts)

\* wait_time = min(self.reconnection_delay * (2 ** self.reconnection_attempts), 60)
chat_wait_time(attempts) == Min(ReconnectionDelay * Pow2(attempts), ChatDelayCap)

(***************************************************************************)
(* Chat requests: send_message_streaming (kind "streaming") and            *)
(* send_message (kind "blocking").  aiEnv is the environment's book-       *)
(* keeping: fails counts the provider failures so far and stops the calls  *)
(* of stop_generation (together bounded by MaxFaults), chunks the chunks   *)
(* the provider has yielded so far (bounded by MaxChunks), health_failed   *)
(* is set from a failed health check until the next successful connect,    *)
(* last_op is the host's latest call: "connect" while it runs, then        *)
(* "connect_returned" or "connect_raised" by the way it ended;             *)
(* "disconnect", or "disconnect_connected" when called while connected.    *)
(***************************************************************************)
EnvInit ==
    [ fails |-> 0, chunks |-> 0, stops |-> 0, health_failed |-> FALSE,
      host |-> "idle", connects |-> 0, disconnects |-> 0, last_op |-> "none" ]

Kinds == {"streaming", "blocking"}
Faults == aiEnv.fails + aiEnv.stops
Chunks == [content : Tokens \cup {None}, finish : BOOLEAN]
ArgSets == {<<t, o, None, None, FALSE>> : t \in Texts, o \in {None}}

\* pc "streaming": the request awaits the provider, either the stream object
\* (await ...completions.create) or its next chunk; nothing runs in between.
InFlight(c) == aiReq[c].pc \in {"connecting", "streaming"}
OnProvider(c) == aiReq[c].pc = "streaming"

\* The content tokens among the chunks q.
RECURSIVE TokensOf(_)
TokensOf(q) ==
    IF q = <<>> THEN <<>>
    ELSE (IF Head(q).content = None THEN <<>> ELSE <<Head(q).content>>)
         \o TokensOf(Tail(q))

\* "await self._current_response_event.wait(); return ..." (lines 267-269,
\* 612-614): wait() on a set Event returns without suspending.
AfterStream(r, s) ==
    IF s.event_set[s.current_response_event]
      THEN [r EXCEPT !.pc = "returned", !.result = s.current_response_content]
      ELSE [r EXCEPT !.pc = "waiting", !.wait_on = s.current_response_event]

\* The caller enters send_message / send_message_streaming (lines 196-201,
\* 550-555) and runs to its first await.
SendEnter(c, kind, a) ==
    /\ aiReq[c].pc = "idle"
    /\ \A d \in Callers : d < c => aiReq[d].pc # "idle"
    /\ IF ai.is_connected
         THEN /\ ai' = send_message_begin(ai, c, kind, a)
              /\ aiReq' = [aiReq EXCEPT ![c] =
                     [@ EXCEPT !.pc = "streaming", !.kind = kind, !.args = a,
                               !.api_messages = prepare_api_messages(ai')]]
         ELSE IF ai.should_maintain_connection
           THEN /\ ai' = connect_enter(ai)
                /\ aiReq' = [aiReq EXCEPT ![c] =
                       [@ EXCEPT !.pc = IF connect_refused(ai) THEN "raised"
                                        ELSE "connecting",
                                 !.kind = kind, !.args = a]]
           ELSE /\ ai' = ai
                /\ aiReq' = [aiReq EXCEPT ![c] =
                       [@ EXCEPT !.pc = "raised", !.kind = kind, !.args = a]]
    /\ UNCHANGED <<aiLoop, aiEnv, nonChat>>

\* A host that sends its next request only when none is on the provider.
SendCall(c, kind, a) ==
    /\ \A d \in Callers : ~InFlight(d)
    /\ SendEnter(c, kind, a)

\* The connect() awaited by the request returns or raises.
SendConnected(c, ok) ==
    /\ aiReq[c].pc = "connecting"
    /\ ok => (ai.should_maintain_connection => FreeLoops # {})
    /\ ~ok => Faults < MaxFaults
    /\ LET s1 == connect_done(ai, ok, NewTask)
       IN  IF ok
             THEN /\ ai' = send_message_begin(s1, c, aiReq[c].kind, aiReq[c].args)
                  /\ aiReq' = [aiReq EXCEPT ![c] =
                         [@ EXCEPT !.pc = "streaming",
                                   !.api_messages = prepare_api_messages(ai')]]
                  /\ aiEnv' = [aiEnv EXCEPT !.health_failed = FALSE]
             ELSE /\ ai' = s1
                  /\ aiReq' = [aiReq EXCEPT ![c].pc = "raised"]
                  /\ aiEnv' = [aiEnv EXCEPT !.fails = @ + 1]
    /\ aiLoop' = SpawnHealth(aiLoop, ai, ok)
    /\ UNCHANGED nonChat

\* The provider request, or the iteration of its stream, raises.
ProviderRaises(c) ==
    /\ OnProvider(c)
    /\ Faults < MaxFaults
    /\ ai' = stream_error(ai, c, aiReq[c].kind)
    /\ aiReq' = [aiReq EXCEPT ![c].pc = "raised"]
    /\ aiEnv' = [aiEnv EXCEPT !.fails = @ + 1]
    /\ UNCHANGED <<aiLoop, nonChat>>

\* The stream yields one chunk and the loop body runs on it.
StreamChunk(c, ch) ==
    /\ aiReq[c].pc = "streaming"
    /\ aiEnv.chunks < MaxChunks
    /\ ai' = stream_chunk(ai, c, aiReq[c].kind, ch)
    /\ LET r == [aiReq[c] EXCEPT !.provided = Append(@, ch)]
       IN  aiReq' = [aiReq EXCEPT ![c] =
               IF stream_breaks(ai, aiReq[c].kind, ch) THEN AfterStream(r, ai') ELSE r]
    /\ aiEnv' = [aiEnv EXCEPT !.chunks = @ + 1]
    /\ UNCHANGED <<aiLoop, nonChat>>

\* The stream ends although no chunk carried a finish_reason.
StreamExhausted(c) ==
    /\ aiReq[c].pc = "streaming"
    /\ aiReq' = [aiReq EXCEPT ![c] = AfterStream(@, ai)]
    /\ UNCHANGED <<ai, aiLoop, aiEnv, nonChat>>

\* stop_generation() called by the UI; stop_k notes how many content tokens
\* each request on the provider had received by then.
StopGeneration ==
    /\ Faults < MaxFaults
    /\ ai' = stop_generation(ai)
    /\ aiReq' = [c \in Callers |->
           IF OnProvider(c) /\ aiReq[c].stop_k = -1
             THEN [aiReq[c] EXCEPT !.stop_k = Len(TokensOf(aiReq[c].provided))]
             ELSE aiReq[c]]
    /\ aiEnv' = [aiEnv EXCEPT !.stops = @ + 1]
    /\ UNCHANGED <<aiLoop, nonChat>>

ChatInit ==
    /\ \E avail \in BOOLEAN, key \in BOOLEAN : ai = AIInit(avail, key)
    /\ aiReq = [c \in Callers |-> ReqIdle]
    /\ aiLoop = [l \in LoopIds |-> LoopNone]
    /\ aiEnv = EnvInit
    /\ bk = BkIdle

ChatNext ==
    \/ \E c \in Callers, k \in Kinds, a \in ArgSets : SendCall(c, k, a)
    \/ \E c \in Callers, ok \in BOOLEAN : SendConnected(c, ok)
    \/ \E c \in Callers : ProviderRaises(c)
    \/ \E c \in Callers, ch \in Chunks : StreamChunk(c, ch)
    \/ \E c \in Callers : StreamExhausted(c)
    \/ StopGeneration


(***************************************************************************)
(* Chat connection lifecycle: the host's connect() and disconnect() calls  *)
(* (main.py) and the health-check tasks.  A health-check task is at        *)
(*   start         created, not yet run                                    *)
(*   sleeping      in "await asyncio.sleep(300)"                           *)
(*   testing       in "await self._test_api_connection()"                  *)
(*   backoff       in "await asyncio.sleep(wait_time)" of                  *)
(*                 _attempt_reconnection                                   *)
(*   reconnecting  in the connect() awaited by _attempt_reconnection       *)
(*   done          returned or cancelled                                   *)
(***************************************************************************)
\* Back at "while self.should_maintain_connection and self.is_connected".
LoopAgain(s) == IF health_loop_continues(s) THEN "sleeping" ELSE "done"

\* The host calls connect() and runs to its await.
HostConnect ==
    /\ aiEnv.host = "idle"
    /\ aiEnv.connects < MaxConnects
    /\ ai' = connect_enter(ai)
    /\ aiEnv' = [aiEnv EXCEPT !.connects = @ + 1,
                              !.last_op = IF connect_refused(ai)
                                            THEN "connect_returned"
                                            ELSE "connect",
                              !.host = IF connect_refused(ai) THEN "idle"
                                       ELSE "connecting"]
    /\ UNCHANGED <<aiReq, aiLoop, nonChat>>

\* The validation call of the host's connect() passes or raises.
HostConnected(ok) ==
    /\ aiEnv.host = "connecting"
    /\ ok => (ai.should_maintain_connection => FreeLoops # {})
    /\ ~ok => aiEnv.fails < MaxConnFailures
    /\ ai' = connect_done(ai, ok, NewTask)
    /\ aiLoop' = SpawnHealth(aiLoop, ai, ok)
    /\ aiEnv' = [aiEnv EXCEPT !.host = "idle",
                              !.last_op = IF ok THEN "connect_returned"
                                            ELSE "connect_raised",
                              !.fails = IF ok THEN @ ELSE @ + 1,
                              !.health_failed = IF ok THEN FALSE ELSE @]
    /\ UNCHANGED <<aiReq, nonChat>>

\* A created health-check task runs for the first time.
LoopStart(l) ==
    /\ aiLoop[l].pc = "start"
    /\ aiLoop' = [aiLoop EXCEPT ![l].pc = LoopAgain(ai)]
    /\ UNCHANGED <<ai, aiReq, aiEnv, nonChat>>

\* asyncio.sleep(300) is over (lines 442-446).
LoopWake(l) ==
    /\ aiLoop[l].pc = "sleeping"
    /\ aiLoop' = [aiLoop EXCEPT ![l].pc =
           IF ai.should_maintain_connection THEN "testing" ELSE LoopAgain(ai)]
    /\ UNCHANGED <<ai, aiReq, aiEnv, nonChat>>

\* The health check passes.
LoopTestPassed(l) ==
    /\ aiLoop[l].pc = "testing"
    /\ aiLoop' = [aiLoop EXCEPT ![l].pc = LoopAgain(ai)]
    /\ UNCHANGED <<ai, aiReq, aiEnv, nonChat>>

\* _attempt_reconnection up to its sleep: the state, and whether it sleeps.
attempt_reconnection_enter(s) ==
    IF reconnection_exhausted(s)
      THEN EmitConn([s EXCEPT !.is_connected = FALSE], FALSE)
      ELSE [s EXCEPT !.reconnection_attempts = @ + 1]

\* The health check raises (lines 450-453, then _attempt_reconnection).
LoopTestFailed(l) ==
    /\ aiLoop[l].pc = "testing"
    /\ aiEnv.fails < MaxConnFailures
    /\ aiEnv' = [aiEnv EXCEPT !.fails = @ + 1,
                              !.health_failed =
                                  IF ai.should_maintain_connection THEN TRUE ELSE @]
    /\ IF ai.should_maintain_connection
         THEN /\ ai' = attempt_reconnection_enter(ai)
              /\ aiLoop' = [aiLoop EXCEPT ![l] =
                     IF reconnection_exhausted(ai)
                       THEN [@ EXCEPT !.pc = LoopAgain(ai')]
                       ELSE [pc |-> "backoff",
                             wait |-> chat_wait_time(ai'.reconnection_attempts)]]
         ELSE /\ ai' = ai
              /\ aiLoop' = [aiLoop EXCEPT ![l].pc = LoopAgain(ai)]
    /\ UNCHANGED <<aiReq, nonChat>>

\* The backoff sleep is over and _attempt_reconnection calls connect().
LoopBackoffOver(l) ==
    /\ aiLoop[l].pc = "backoff"
    /\ ai' = connect_enter(ai)
    /\ aiLoop' = [aiLoop EXCEPT ![l].pc =
           IF connect_refused(ai) THEN LoopAgain(ai') ELSE "reconnecting"]
    /\ UNCHANGED <<aiReq, aiEnv, nonChat>>

\* The connect() of _attempt_reconnection returns or raises (lines 470-473).
LoopReconnected(l, ok) ==
    /\ aiLoop[l].pc = "reconnecting"
    /\ ok => (ai.should_maintain_connection => FreeLoops # {})
    /\ ~ok => aiEnv.fails < MaxConnFailures
    /\ ai' = connect_done(ai, ok, NewTask)
    /\ aiLoop' = [SpawnHealth(aiLoop, ai, ok) EXCEPT ![l].pc = LoopAgain(ai')]
    /\ aiEnv' = [aiEnv EXCEPT !.fails = IF ok THEN @ ELSE @ + 1,
                              !.health_failed = IF ok THEN FALSE ELSE @]
    /\ UNCHANGED <<aiReq, nonChat>>

\* disconnect() lines 392-399: the flags, and the cancellation of the task
\* health_check_task names.
disconnect_enter(s) ==
    [s EXCEPT !.should_maintain_connection = FALSE, !.is_connected = FALSE]

\* disconnect() lines 402-407, up to the await of the client's close().
disconnect_task_gone(s) == [s EXCEPT !.health_check_task = NoTask]

\* disconnect() lines 407-413.
disconnect_finish(s) == EmitConn(s, FALSE)

HostDisconnect ==
    /\ aiEnv.host = "idle"
    /\ aiEnv.disconnects < MaxDisconnects
    /\ LET s1 == disconnect_enter(ai)
           s2 == IF s1.health_check_task # NoTask THEN s1 ELSE
                 IF s1.openai_client THEN s1 ELSE disconnect_finish(s1)
       IN  /\ ai' = s2
           /\ aiEnv' = [aiEnv EXCEPT !.disconnects = @ + 1,
                  !.last_op = IF ai.is_connected THEN "disconnect_connected"
                              ELSE "disconnect",
                  !.host = IF s1.health_check_task # NoTask THEN "awaiting_task"
                           ELSE IF s1.openai_client THEN "closing" ELSE "idle"]
           /\ aiLoop' = IF ai.health_check_task # NoTask
                          THEN [aiLoop EXCEPT ![ai.health_check_task].pc = "done"]
                          ELSE aiLoop
    /\ UNCHANGED <<aiReq, nonChat>>

\* The cancelled task has ended: "await self.health_check_task" returns.
HostTaskAwaited ==
    /\ aiEnv.host = "awaiting_task"
    /\ LET s1 == disconnect_task_gone(ai)
       IN  /\ ai' = IF s1.openai_client THEN s1 ELSE disconnect_finish(s1)
           /\ aiEnv' = [aiEnv EXCEPT !.host =
                  IF s1.openai_client THEN "closing" ELSE "idle"]
    /\ UNCHANGED <<aiReq, aiLoop, nonChat>>

\* "await self.openai_client.close()" returns.
HostClientClosed ==
    /\ aiEnv.host = "closing"
    /\ ai' = disconnect_finish([ai EXCEPT !.openai_client = FALSE])
    /\ aiEnv' = [aiEnv EXCEPT !.host = "idle"]
    /\ UNCHANGED <<aiReq, aiLoop, nonChat>>

ChatConnNext ==
    \/ HostConnect
    \/ \E ok \in BOOLEAN : HostConnected(ok)
    \/ \E l \in LoopIds : LoopStart(l)
    \/ \E l \in LoopIds : LoopWake(l)
    \/ \E l \in LoopIds : LoopTestPassed(l)
    \/ \E l \in LoopIds : LoopTestFailed(l)
    \/ \E l \in LoopIds : LoopBackoffOver(l)
    \/ \E l \in LoopIds, ok \in BOOLEAN : LoopReconnected(l, ok)
    \/ HostDisconnect
    \/ HostTaskAwaited
    \/ HostClientClosed


\* C9: after a failed health check, as long as should_maintain_connection is
\* true, no connect has succeeded since and fewer than 10 reconnection attempts
\* have been made, a further reconnection attempt is under way: some
\* health-check task is in its backoff sleep or in the connect() that follows.
C9_RetriesUntilCeiling ==
    ( /\ aiEnv.health_failed
      /\ ai.should_maintain_connection
      /\ ai.reconnection_attempts < MaxReconnectionAttempts )
    => \E l \in LoopIds : aiLoop[l].pc \in {"backoff", "reconnecting"}

(***************************************************************************)
(* Tag Sync: TagWebSocketManager (ai/tag_websocket_manager.py).            *)
(*                                                                         *)
(* tg       the manager's fields, plus calls: the callbacks made by the    *)
(*          latest step, and conn_last: the value last handed to           *)
(*          on_connection_changed ("none" before any call).                *)
(* tgThread where each coroutine is suspended: the host's call, and the    *)
(*          receive and monitor tasks of each successful connect (the ping *)
(*          task reads the fields and sends "ping"; it changes nothing).   *)
(* tgEnv    the environment: which sockets are open, how many were opened, *)
(*          and the bookkeeping the properties read.                       *)
(* A socket, and the tasks started with it, are named by the number g of   *)
(* the successful connect that created them; 0 is Python's None.           *)
(***************************************************************************)
Ids == {"1", "2"}
Names == {<<"u">>, <<"v">>}
Colors == {<<"r">>}
Tenant == "t"
NoSocket == 0

Tag(id, name, color) == [id |-> id, name |-> name, color |-> color]

\* TagData.to_tag returns None for a missing or empty name or color.
\* Mutant of to_tag_fails: a tag without a colour is accepted.
to_tag_fails_name_only(d) == ~Truthy(d.name)

to_tag_fails(d) == ~Truthy(d.name) \/ ~Truthy(d.color)
to_tag(d) == Tag(d.uniqueid, d.name, d.color)

\* The index of the first entry of tags with this id, 0 when there is none.
FirstIndex(tags, id) ==
    IF \E i \in 1..Len(tags) : tags[i].id = id
      THEN CHOOSE i \in 1..Len(tags) :
               /\ tags[i].id = id
               /\ \A j \in 1..(i - 1) : tags[j].id # id
      ELSE 0

\* Mutant of add_or_update_tag: the tag is appended without looking for its id.
add_or_update_tag_append(tags, tag) == Append(tags, tag)

\* def _add_or_update_tag
add_or_update_tag(tags, tag) ==
    IF FirstIndex(tags, tag.id) # 0
      THEN [tags EXCEPT ![FirstIndex(tags, tag.id)] = tag]
      ELSE Append(tags, tag)

\* def _remove_tag
remove_tag(tags, id) ==
    IF FirstIndex(tags, id) # 0
      THEN SubSeq(tags, 1, FirstIndex(tags, id) - 1)
           \o SubSeq(tags, FirstIndex(tags, id) + 1, Len(tags))
      ELSE tags

\* def get_tag: the entry itself, as a sequence of at most one element.
get_tag(tags, id) ==
    IF FirstIndex(tags, id) # 0 THEN <<tags[FirstIndex(tags, id)]>> ELSE <<>>

TagEmit(s, cb, arg) == [s EXCEPT !.calls = Append(@, [cb |-> cb, arg |-> arg])]
TagEmitConn(s, v) == [s EXCEPT !.conn_last = IF v THEN "true" ELSE "false"]
Fresh(s) == [s EXCEPT !.calls = <<>>]

NoData == [shape |-> "absent", uniqueid |-> "", name |-> <<>>, color |-> <<>>]
NoFrame == [kind |-> "none", type |-> "", action |-> "none", data |-> NoData]

TagInit ==
    [ is_connected |-> FALSE,
      is_loading |-> FALSE,
      error |-> "None",
      websocket |-> NoSocket,
      tenant_name |-> "",
      http_session |-> FALSE,
      tags |-> <<>>,
      should_maintain_connection |-> TRUE,
      reconnection_attempts |-> 0,
      receive_task |-> NoTask,
      ping_task |-> NoTask,
      connection_monitor_task |-> NoTask,
      calls |-> <<>>,
      conn_last |-> "none" ]

\* Mutant of handle_tag_update: an updated frame is announced as a creation.
handle_tag_update_as_created(s, u) ==
    IF u.type # "tag_update" THEN s
    ELSE IF u.action = "none" \/ u.data.shape # "ok" THEN s
    ELSE IF u.action \in {"created", "updated"}
      THEN IF to_tag_fails(u.data) THEN s
           ELSE TagEmit([s EXCEPT !.tags = add_or_update_tag(@, to_tag(u.data))],
                        "on_tag_created", to_tag(u.data))
    ELSE IF u.action = "deleted"
      THEN TagEmit([s EXCEPT !.tags = remove_tag(@, u.data.uniqueid)],
                   "on_tag_deleted", u.data.uniqueid)
    ELSE s

\* def _handle_tag_update.  A frame u is a record with kind "json" whose type,
\* action and data are those of the envelope; data.shape is "absent" (no data,
\* or an empty one), "bad" (TagData(**data) raises: no uniqueid, or a key
\* TagData does not have) or "ok".  The assignment to last_tag_update is left
\* out: nothing in the session reads that field.
handle_tag_update(s, u) ==
    LET s1 == s
    IN  IF u.type # "tag_update" THEN s1
        ELSE IF u.action = "none" \/ u.data.shape = "absent" THEN s1
        ELSE IF u.data.shape = "bad" THEN s1
        ELSE IF u.action = "created"
          THEN IF to_tag_fails(u.data) THEN s1
               ELSE TagEmit([s1 EXCEPT !.tags = add_or_update_tag(@, to_tag(u.data))],
                            "on_tag_created", to_tag(u.data))
        ELSE IF u.action = "updated"
          THEN IF to_tag_fails(u.data) THEN s1
               ELSE TagEmit([s1 EXCEPT !.tags = add_or_update_tag(@, to_tag(u.data))],
                            "on_tag_updated", to_tag(u.data))
        ELSE IF u.action = "deleted"
          THEN TagEmit([s1 EXCEPT !.tags = remove_tag(@, u.data.uniqueid)],
                       "on_tag_deleted", u.data.uniqueid)
        ELSE s1

\* def _handle_text_message: "pong", a text json.loads or TagUpdate(**data)
\* rejects (kind "invalid"), or an envelope.
handle_text_message(s, f) ==
    IF f.kind = "json" THEN handle_tag_update(Fresh(s), f) ELSE Fresh(s)

\* def fetch_all_tags up to its await (lines 141-166): the early return for an
\* empty tenant name, else the request is sent.
fetch_refused(s) == s.tenant_name = ""
fetch_enter(s) ==
    LET s1 == [Fresh(s) EXCEPT !.is_loading = TRUE, !.error = "None"]
    IN  IF fetch_refused(s)
          THEN TagEmit([s1 EXCEPT !.error = "Tenant name not set",
                                  !.is_loading = FALSE],
                       "on_error_occurred", "Tenant name not set")
          ELSE [s1 EXCEPT !.http_session = TRUE]

\* def fetch_all_tags after the response (lines 168-201).  r.status is "200",
\* "HTTP 500" (another status) or "exception"; r.tags is the list of a 200.
fetch_done(s, r) ==
    IF r.status = "200"
      THEN TagEmit([Fresh(s) EXCEPT !.tags = r.tags, !.is_loading = FALSE],
                   "on_tags_loaded", r.tags)
      ELSE TagEmit([Fresh(s) EXCEPT !.error = r.status, !.is_loading = FALSE],
                   "on_error_occurred", r.status)

(***************************************************************************)
(* Tag Sync connection: connect, _handle_connection_error, _reconnect.     *)
(* A coroutine inside this code is at                                      *)
(*   connecting  in "await websockets.connect(...)"                        *)
(*   backoff     in "await asyncio.sleep(delay)" of                        *)
(*               _handle_connection_error                                  *)
(*   closing     in "await self.websocket.close()" of _reconnect           *)
(* and "resume" stands for its return to the code that called it.          *)
(***************************************************************************)
TagDelayCap == 30

\* delay = min(self.reconnection_delay * (2 ** (self.reconnection_attempts - 1)), 30.0)
tag_delay(attempts) == Min(ReconnectionDelay * Pow2(attempts - 1), TagDelayCap)

\* connect() lines 212-215
connect_skipped(s) == s.websocket # NoSocket \/ ~s.should_maintain_connection
connect_call(s, tenant) ==
    IF connect_skipped(s)
      THEN [s |-> s, pc |-> "resume"]
      ELSE [s |-> [s EXCEPT !.tenant_name = tenant], pc |-> "connecting"]

\* connect() lines 222-241: the socket g is open.
connect_opened(s, g) ==
    TagEmitConn([s EXCEPT !.websocket = g,
                          !.is_connected = TRUE,
                          !.reconnection_attempts = 0,
                          !.ping_task = g,
                          !.receive_task = g,
                          !.connection_monitor_task = g],
                TRUE)

\* def _handle_connection_error up to its sleep.
handle_connection_error(s) ==
    LET s1 == TagEmitConn([s EXCEPT !.is_connected = FALSE], FALSE)
    IN  IF ~s1.should_maintain_connection THEN [s |-> s1, pc |-> "resume"]
        ELSE IF s1.reconnection_attempts < MaxReconnectionAttempts
          THEN [s |-> [s1 EXCEPT !.reconnection_attempts = @ + 1], pc |-> "backoff"]
          ELSE [s |-> [s1 EXCEPT !.reconnection_attempts = 0], pc |-> "resume"]

\* connect() lines 243-248: websockets.connect raised.
connect_failed(s) ==
    LET s1 == [s EXCEPT !.is_connected = FALSE]
    IN  IF s1.should_maintain_connection THEN handle_connection_error(s1)
        ELSE [s |-> s1, pc |-> "resume"]

\* def _reconnect up to its first await.
reconnect(s) ==
    IF ~s.should_maintain_connection THEN [s |-> s, pc |-> "resume"]
    ELSE IF s.websocket # NoSocket THEN [s |-> s, pc |-> "closing"]
    ELSE connect_call(s, s.tenant_name)

\* def _reconnect after "await self.websocket.close()".
reconnect_closed(s) ==
    LET s1 == [s EXCEPT !.websocket = NoSocket]
    IN  connect_call(s1, s1.tenant_name)

Gens == 1..MaxGen
Host == <<"host", 0>>
Tasks == {<<k, g>> : k \in {"recv", "mon"}, g \in Gens}
Threads == {Host} \cup Tasks
ThreadNone == [pc |-> "none", op |-> "none", sock |-> NoSocket, delay |-> 0]

\* The while conditions of the three loops.
monitor_continues(s) == s.should_maintain_connection
socket_loop_continues(s) == s.websocket # NoSocket /\ s.should_maintain_connection

\* Where a coroutine goes on when the connection code returns to it: the host's
\* call returns, _receive_messages ends (it was in its finally clause),
\* _monitor_connection goes round its loop.
Resume(T, s) ==
    IF T[1] = "host" THEN "idle"
    ELSE IF T[1] = "mon" THEN (IF monitor_continues(s) THEN "sleeping" ELSE "done")
    ELSE "done"

Land(T, r) == IF r.pc = "resume" THEN Resume(T, r.s) ELSE r.pc

\* One more automatic connection attempt since the connection, once
\* established, was lost.
CountAttempt(e, pc) ==
    IF pc = "connecting" /\ e.gen > 0
      THEN [e EXCEPT !.auto_attempts = Min(@ + 1, MaxReconnectionAttempts + 1)]
      ELSE e

\* close() has been called on the socket of s.
CloseSocket(e, s, pc) ==
    IF pc = "closing" THEN [e EXCEPT !.open[s.websocket] = FALSE] ELSE e

\* websockets.connect returns the socket: lines 222-241.
ChainOpened(T) ==
    /\ tgThread[T].pc = "connecting"
    /\ tgEnv.gen < MaxGen
    /\ LET g == tgEnv.gen + 1
           s1 == connect_opened(Fresh(tg), g)
       IN  /\ tg' = s1
           /\ tgThread' = [U \in Threads |->
                  IF U = T THEN [tgThread[T] EXCEPT !.pc = Resume(T, s1)]
                  ELSE IF U \in Tasks /\ U[2] = g
                    THEN [ThreadNone EXCEPT !.pc = "start"]
                  ELSE tgThread[U]]
           /\ tgEnv' = [tgEnv EXCEPT !.gen = g, !.open[g] = TRUE,
                                     !.auto_attempts = 0,
                                     !.init_socket =
                                         IF T = Host /\ tgThread[T].op = "initialize"
                                           THEN g ELSE @]
    /\ UNCHANGED nonTag

\* websockets.connect raises: lines 243-248 and _handle_connection_error.
ChainRefused(T) ==
    /\ tgThread[T].pc = "connecting"
    /\ LET r == connect_failed(Fresh(tg))
       IN  /\ tg' = r.s
           /\ tgThread' = [tgThread EXCEPT ![T].pc = Land(T, r),
                  ![T].delay = IF r.pc = "backoff"
                                 THEN tag_delay(r.s.reconnection_attempts) ELSE 0]
           /\ tgEnv' = tgEnv
    /\ UNCHANGED nonTag

\* The backoff sleep is over: _reconnect (line 424).
ChainBackoffOver(T) ==
    /\ tgThread[T].pc = "backoff"
    /\ LET r == reconnect(Fresh(tg))
       IN  /\ tg' = r.s
           /\ tgThread' = [tgThread EXCEPT ![T].pc = Land(T, r), ![T].delay = 0]
           /\ tgEnv' = CloseSocket(CountAttempt(tgEnv, r.pc), tg, r.pc)
    /\ UNCHANGED nonTag

\* "await self.websocket.close()" of _reconnect returns (lines 440-443).
ChainClosed(T) ==
    /\ tgThread[T].pc = "closing"
    /\ LET r == reconnect_closed(Fresh(tg))
       IN  /\ tg' = r.s
           /\ tgThread' = [tgThread EXCEPT ![T].pc = Land(T, r)]
           /\ tgEnv' = CountAttempt(tgEnv, r.pc)
    /\ UNCHANGED nonTag

(***************************************************************************)
(* Tag Sync background tasks of the socket g: _receive_messages,           *)
(* _ping_loop, _monitor_connection.                                        *)
(***************************************************************************)
Recv(g) == <<"recv", g>>
Mon(g) == <<"mon", g>>

\* The finally clause of _receive_messages (lines 323-325).
receive_finally(s) ==
    IF s.should_maintain_connection THEN handle_connection_error(s)
    ELSE [s |-> s, pc |-> "resume"]

\* The head of the loop of _receive_messages: wait on the socket or leave.
ReceiveLoop(T, s) ==
    IF socket_loop_continues(s)
      THEN [s |-> s, pc |-> "receiving", sock |-> s.websocket, delay |-> 0]
      ELSE LET r == receive_finally(s)
           IN  [s |-> r.s, pc |-> Land(T, r), sock |-> NoSocket,
                delay |-> IF r.pc = "backoff"
                            THEN tag_delay(r.s.reconnection_attempts) ELSE 0]

RecvStep(g, s) ==
    LET r == ReceiveLoop(Recv(g), s)
    IN  /\ tg' = r.s
        /\ tgThread' = [tgThread EXCEPT ![Recv(g)].pc = r.pc,
                                        ![Recv(g)].sock = r.sock,
                                        ![Recv(g)].delay = r.delay]

RecvStart(g) ==
    /\ tgThread[Recv(g)].pc = "start"
    /\ RecvStep(g, Fresh(tg))
    /\ UNCHANGED <<tgEnv, nonTag>>

\* recv() raises ConnectionClosed (or anything else): break, then finally.
RecvLost(g) ==
    /\ tgThread[Recv(g)].pc = "receiving"
    /\ ~tgEnv.open[tgThread[Recv(g)].sock]
    /\ LET r == receive_finally(Fresh(tg))
       IN  /\ tg' = r.s
           /\ tgThread' = [tgThread EXCEPT
                  ![Recv(g)].pc = Land(Recv(g), r),
                  ![Recv(g)].sock = NoSocket,
                  ![Recv(g)].delay = IF r.pc = "backoff"
                                       THEN tag_delay(r.s.reconnection_attempts) ELSE 0]
    /\ UNCHANGED <<tgEnv, nonTag>>

\* The server or the network closes the socket g.
ServerDrops(g) ==
    /\ tgEnv.open[g]
    /\ tgEnv' = [tgEnv EXCEPT !.open[g] = FALSE,
                              !.stale = IF tg.is_connected /\ tg.websocket = g
                                          THEN TRUE ELSE @]
    /\ UNCHANGED <<tg, tgThread, nonTag>>

MonStart(g) ==
    /\ tgThread[Mon(g)].pc = "start"
    /\ tgThread' = [tgThread EXCEPT ![Mon(g)].pc =
           IF monitor_continues(tg) THEN "sleeping" ELSE "done"]
    /\ UNCHANGED <<tg, tgEnv, nonTag>>

\* After the 10 s sleep of _monitor_connection (lines 396-400).
MonWake(g) ==
    /\ tgThread[Mon(g)].pc = "sleeping"
    /\ IF tg.should_maintain_connection /\ ~tg.is_connected
         THEN LET r == reconnect(Fresh(tg))
              IN  /\ tg' = r.s
                  /\ tgThread' = [tgThread EXCEPT ![Mon(g)].pc = Land(Mon(g), r)]
                  /\ tgEnv' = CloseSocket(CountAttempt(tgEnv, r.pc), tg, r.pc)
         ELSE /\ tgThread' = [tgThread EXCEPT ![Mon(g)].pc =
                      IF monitor_continues(tg) THEN "sleeping" ELSE "done"]
              /\ UNCHANGED <<tg, tgEnv>>
    /\ UNCHANGED nonTag

(***************************************************************************)
(* Tag Sync: the host's calls (initialize, refresh_tags, connect,          *)
(* disconnect) and the frames the server sends.                            *)
(***************************************************************************)
NoDup(tags) == \A i, j \in 1..Len(tags) : tags[i].id = tags[j].id => i = j

\* The reference map of a list without duplicate ids: id -> its entry.
RefOf(tags) == [id \in Ids |-> SelectSeq(tags, LAMBDA x : x.id = id)]

\* A frame that the session applies: a created or updated frame with a name
\* and a color, or a deleted frame.
Applies(f) ==
    /\ f.kind = "json" /\ f.type = "tag_update" /\ f.data.shape = "ok"
    /\ \/ f.action \in {"created", "updated"} /\ Truthy(f.data.name) /\ Truthy(f.data.color)
       \/ f.action = "deleted"

\* A created or updated frame whose data has no name or no colour, or an
\* empty one.
Malformed(f) ==
    /\ f.kind = "json" /\ f.type = "tag_update" /\ f.data.shape = "ok"
    /\ f.action \in {"created", "updated"}
    /\ (f.data.name = <<>> \/ f.data.color = <<>>)

\* The reference map after the frame f.
RefApply(ref, f) ==
    IF ~Applies(f) THEN ref
    ELSE IF f.action = "deleted" THEN [ref EXCEPT ![f.data.uniqueid] = <<>>]
    ELSE [ref EXCEPT ![f.data.uniqueid] =
              <<Tag(f.data.uniqueid, f.data.name, f.data.color)>>]

TagEnvInit ==
    [ gen |-> 0,
      open |-> [g \in 0..MaxGen |-> FALSE],
      auto_attempts |-> 0,
      init_fetch_failed |-> FALSE,
      init_socket |-> NoSocket,
      host_calls |-> 0,
      frames |-> 0,
      ref |-> [id \in Ids |-> <<>>],
      ref_ok |-> TRUE,
      after_update |-> FALSE,
      last_applied |-> [action |-> "none", hit |-> FALSE],
      malformed |-> FALSE,
      stale |-> FALSE,
      handled |-> NoFrame ]

TagStart ==
    /\ tg = TagInit
    /\ tgThread = [T \in Threads |-> IF T = Host THEN [ThreadNone EXCEPT !.pc = "idle"]
                                                ELSE ThreadNone]
    /\ tgEnv = TagEnvInit

TagIdle == tgThread[Host].pc = "idle" /\ tgEnv.host_calls < MaxHostCalls

\* def initialize up to its first await.
TagInitialize(tenant) ==
    /\ TagIdle
    /\ LET s0 == [Fresh(tg) EXCEPT !.tenant_name = tenant, !.http_session = TRUE]
           s1 == fetch_enter(s0)
           r  == connect_call(s1, tenant)
       IN  IF fetch_refused(s0)
             THEN /\ tg' = r.s
                  /\ tgThread' = [tgThread EXCEPT ![Host].pc = Land(Host, r),
                                                  ![Host].op = "initialize"]
                  /\ tgEnv' = [tgEnv EXCEPT !.host_calls = @ + 1,
                                            !.init_fetch_failed = FALSE,
                                            !.init_socket = NoSocket]
             ELSE /\ tg' = s1
                  /\ tgThread' = [tgThread EXCEPT ![Host].pc = "fetching",
                                                  ![Host].op = "initialize"]
                  /\ tgEnv' = [tgEnv EXCEPT !.host_calls = @ + 1,
                                            !.init_fetch_failed = FALSE,
                                            !.init_socket = NoSocket]
    /\ UNCHANGED nonTag

\* def refresh_tags up to its await.
TagRefresh ==
    /\ TagIdle
    /\ tg' = fetch_enter(tg)
    /\ tgThread' = [tgThread EXCEPT
           ![Host].pc = IF fetch_refused(tg) THEN "idle" ELSE "fetching",
           ![Host].op = "refresh"]
    /\ tgEnv' = [tgEnv EXCEPT !.host_calls = @ + 1]
    /\ UNCHANGED nonTag

\* The response of the bulk fetch arrives; fetch_all_tags returns to
\* refresh_tags, or to initialize, which goes on to connect (line 130).
TagFetched(r) ==
    /\ tgThread[Host].pc = "fetching"
    /\ LET s1 == fetch_done(tg, r)
           c  == connect_call(s1, s1.tenant_name)
       IN  /\ IF tgThread[Host].op = "initialize"
                THEN /\ tg' = c.s
                     /\ tgThread' = [tgThread EXCEPT ![Host].pc = Land(Host, c)]
                ELSE /\ tg' = s1
                     /\ tgThread' = [tgThread EXCEPT ![Host].pc = "idle"]
           /\ tgEnv' = [tgEnv EXCEPT
                  !.init_fetch_failed =
                      IF tgThread[Host].op = "initialize" THEN r.status # "200" ELSE @,
                  !.ref = IF r.status = "200" THEN RefOf(r.tags) ELSE @,
                  !.ref_ok = IF r.status = "200" THEN NoDup(r.tags) ELSE @,
                  !.after_update = IF r.status = "200" THEN FALSE ELSE @,
                  !.stale = IF r.status = "200" THEN FALSE ELSE @]
    /\ UNCHANGED nonTag

\* The host calls connect(tenant_name) itself.
TagConnect ==
    /\ TagIdle
    /\ LET r == connect_call(Fresh(tg), Tenant)
       IN  /\ tg' = r.s
           /\ tgThread' = [tgThread EXCEPT ![Host].pc = Land(Host, r),
                                           ![Host].op = "connect"]
    /\ tgEnv' = [tgEnv EXCEPT !.host_calls = @ + 1]
    /\ UNCHANGED nonTag

\* disconnect() lines 271-275.
disconnect_done(s) == TagEmitConn([s EXCEPT !.is_connected = FALSE], FALSE)

Cancelled(s) == {Recv(s.receive_task), Mon(s.connection_monitor_task)}

\* def disconnect up to its first await.
TagDisconnect ==
    /\ TagIdle
    /\ LET s1 == [Fresh(tg) EXCEPT !.should_maintain_connection = FALSE]
           pc == IF s1.websocket # NoSocket THEN "disc_socket"
                 ELSE IF s1.http_session THEN "disc_session" ELSE "idle"
       IN  /\ tg' = IF pc = "idle" THEN disconnect_done(s1) ELSE s1
           /\ tgThread' = [T \in Threads |->
                  IF T = Host THEN [tgThread[T] EXCEPT !.pc = pc, !.op = "disconnect"]
                  ELSE IF T \in Cancelled(tg) /\ tgThread[T].pc # "none"
                    THEN [ThreadNone EXCEPT !.pc = "done"]
                  ELSE tgThread[T]]
           /\ tgEnv' = [tgEnv EXCEPT !.host_calls = @ + 1,
                                     !.open[s1.websocket] = FALSE]
    /\ UNCHANGED nonTag

\* "await self.websocket.close()" of disconnect returns.
TagSocketClosed ==
    /\ tgThread[Host].pc = "disc_socket"
    /\ LET s1 == [Fresh(tg) EXCEPT !.websocket = NoSocket]
       IN  /\ tg' = IF s1.http_session THEN s1 ELSE disconnect_done(s1)
           /\ tgThread' = [tgThread EXCEPT ![Host].pc =
                  IF s1.http_session THEN "disc_session" ELSE "idle"]
    /\ UNCHANGED <<tgEnv, nonTag>>

\* "await self.http_session.close()" of disconnect returns.
TagSessionClosed ==
    /\ tgThread[Host].pc = "disc_session"
    /\ tg' = disconnect_done([Fresh(tg) EXCEPT !.http_session = FALSE])
    /\ tgThread' = [tgThread EXCEPT ![Host].pc = "idle"]
    /\ UNCHANGED <<tgEnv, nonTag>>

FrameNames == Names \cup {<<>>}
TagDatas ==
    {d \in [shape : {"ok"}, uniqueid : Ids, name : FrameNames, color : Colors \cup {<<>>}] :
        d.color = <<>> => d.name = <<"u">>}
    \cup {NoData, [NoData EXCEPT !.shape = "bad"]}
Frames ==
    {[NoFrame EXCEPT !.kind = "text"]}
    \cup {[kind |-> "json", type |-> "connection", action |-> "none", data |-> NoData]}
    \cup [kind : {"json"}, type : {"tag_update"},
          action : {"created", "updated", "none"}, data : TagDatas]
    \cup [kind : {"json"}, type : {"tag_update"}, action : {"deleted"},
          data : {d \in TagDatas : d.name = <<"u">> /\ d.color = <<"r">>}
                 \cup {NoData, [NoData EXCEPT !.shape = "bad"]}]

\* _receive_messages gets a text frame from its socket: _handle_text_message,
\* then the head of the loop again.
RecvFrame(g, f) ==
    /\ tgThread[Recv(g)].pc = "receiving"
    /\ tgEnv.open[tgThread[Recv(g)].sock]
    /\ tgEnv.frames < MaxFrames
    /\ RecvStep(g, handle_text_message(tg, f))
    /\ tgEnv' = [tgEnv EXCEPT !.frames = @ + 1,
                              !.ref = RefApply(@, f),
                              !.after_update = IF Applies(f) THEN TRUE ELSE @,
                              !.last_applied =
                                  IF Applies(f)
                                    THEN [action |-> f.action,
                                          hit |-> tgEnv.ref[f.data.uniqueid] # <<>>]
                                    ELSE @,
                              !.malformed = Malformed(f),
                              !.handled = IF Applies(f) THEN f ELSE NoFrame]
    /\ UNCHANGED nonTag

FetchTags == {Tag(id, n, c) : id \in Ids, n \in Names, c \in Colors}
RECURSIVE ListsUpTo(_)
ListsUpTo(n) ==
    IF n = 0 THEN {<<>>}
    ELSE ListsUpTo(n - 1)
         \cup {Append(l, x) : l \in {m \in ListsUpTo(n - 1) : Len(m) = n - 1}, x \in FetchTags}
FetchResults ==
    [status : {"200"}, tags : ListsUpTo(MaxFetchLen)]
    \cup [status : {"HTTP 500", "exception"}, tags : {<<>>}]

(***************************************************************************)
(* Context Search: ContextSearchAPI (api/context_search.py).               *)
(*                                                                         *)
(* cs       the fields of the session, plus calls: the callbacks made by   *)
(*          the latest step.                                               *)
(* csThread where each coroutine is suspended: the host's call and the     *)
(*          receive task of each successful connect; cancel is set from    *)
(*          task.cancel() until the CancelledError is raised in the task   *)
(*          at its suspension point.                                       *)
(* csEnv    the environment: which sockets are open, how many were opened, *)
(*          and the bookkeeping the properties read.                       *)
(* A coroutine is at                                                       *)
(*   conn_closing  in "await self.websocket.close()" of the disconnect()   *)
(*                 that connect() calls when a socket is held              *)
(*   connecting    in "await websockets.connect(...)"                      *)
(*   backoff       in "await asyncio.sleep(self.reconnect_delay)"          *)
(*   receiving     in "await self.websocket.recv()"                        *)
(*   sending       in "await self.websocket.send(...)"                     *)
(*   disc_closing  in "await self.websocket.close()" of disconnect()       *)
(***************************************************************************)
CsGens == 1..MaxCsGen
CsThreads == {Host} \cup {Recv(g) : g \in CsGens}
CsThreadNone == [pc |-> "none", op |-> "none", sock |-> NoSocket, cancel |-> FALSE]

\* SearchMethod.endpoint; "None" before any method was selected.
CsEndpoints == {"topic_extraction", "sentence_chunks"}
DefaultEndpoint == "sentence_chunks"

\* The result sets of the responses; EmptyResult is what from_dict makes of a
\* JSON object without a results field.
CsResults == {"r1", "r2"}
EmptyResult == "empty"

\* def __init__
CsInit ==
    [ is_connected |-> FALSE,
      is_searching |-> FALSE,
      connection_error |-> "None",
      websocket |-> NoSocket,
      current_endpoint |-> "None",
      search_results |-> "None",
      should_reconnect |-> TRUE,
      receive_task |-> NoTask,
      calls |-> <<>>,
      conn_last |-> FALSE,
      is_loading |-> FALSE ]

\* The callbacks are those AutoContextManager.__init__ sets: each of
\* _on_search_results, _on_error and _on_connection_changed(False) sets
\* AutoContextManager.is_loading to False.
ClearsLoading(cb, arg) ==
    \/ cb \in {"on_results_received", "on_error"}
    \/ (cb = "on_connection_changed" /\ arg = FALSE)

\* if self.on_X: self.on_X(arg).  calls holds the callbacks of the current
\* step, conn_last the value of the latest on_connection_changed call.
CsEmit(s, cb, arg) ==
    [s EXCEPT !.calls = Append(@, [cb |-> cb, arg |-> arg]),
              !.conn_last = IF cb = "on_connection_changed" THEN arg ELSE @,
              !.is_loading = IF ClearsLoading(cb, arg) THEN FALSE ELSE @]
CsFresh(s) == [s EXCEPT !.calls = <<>>]

\* A text frame as _handle_message tells them apart:
\*   invalid  not JSON (json.loads raises JSONDecodeError)
\*   bad      JSON that makes the handler raise (not an object, or a result
\*            whose created_at is not a date)
\*   error    an object with an "error" member, val its message
\*   result   a well-formed response, val its result set
\*   other    an object with neither: from_dict fills in its defaults
CsFrames ==
    {[kind |-> k, val |-> "-"] : k \in {"invalid", "bad", "other"}}
    \cup {[kind |-> "error", val |-> "e"]}
    \cup {[kind |-> "result", val |-> r] : r \in CsResults}
CsNoFrame == [kind |-> "none", val |-> "-"]

\* Mutant of cs_handle_message: an error envelope also discards the results.
cs_handle_message_clearing(s, f) ==
    IF f.kind = "result"
      THEN CsEmit([s EXCEPT !.search_results = f.val, !.is_searching = FALSE],
                  "on_results_received", f.val)
      ELSE CsEmit([s EXCEPT !.search_results = "None", !.is_searching = FALSE],
                  "on_error", f.val)

\* def _handle_message
cs_handle_message(s, f) ==
    IF f.kind = "error"
      THEN CsEmit([s EXCEPT !.connection_error = f.val, !.is_searching = FALSE],
                  "on_error", f.val)
    ELSE IF f.kind = "result"
      THEN CsEmit([s EXCEPT !.search_results = f.val, !.is_searching = FALSE],
                  "on_results_received", f.val)
    ELSE IF f.kind = "other"
      THEN CsEmit([s EXCEPT !.search_results = EmptyResult, !.is_searching = FALSE],
                  "on_results_received", EmptyResult)
    ELSE CsEmit([s EXCEPT !.is_searching = FALSE], "on_error", f.kind)

\* disconnect() lines 144-147 (the cancellation is the coroutines' matter).
cs_disconnect_enter(s) == [s EXCEPT !.should_reconnect = FALSE]

\* disconnect() lines 151-156.
cs_disconnect_finish(s) ==
    CsEmit([s EXCEPT !.websocket = NoSocket, !.is_connected = FALSE],
           "on_connection_changed", FALSE)

\* connect() up to its first suspension.  With a socket held it calls
\* disconnect() first; susp tells whether the close() of that socket
\* suspends the coroutine (closing an already closed socket need not).
cs_connect_call(s, susp) ==
    IF s.websocket # NoSocket
      THEN IF susp
             THEN [s |-> cs_disconnect_enter(s), pc |-> "conn_closing"]
             ELSE [s |-> cs_disconnect_finish(cs_disconnect_enter(s)),
                   pc |-> "connecting"]
      ELSE [s |-> s, pc |-> "connecting"]

\* connect() lines 113-129: the socket g is open.
cs_connect_opened(s, g) ==
    CsEmit([s EXCEPT !.websocket = g,
                     !.is_connected = TRUE,
                     !.connection_error = "None",
                     !.receive_task = g],
           "on_connection_changed", TRUE)

\* def _schedule_reconnect up to its sleep.
cs_schedule_reconnect(s) ==
    IF s.current_endpoint = "None" THEN [s |-> s, pc |-> "resume"]
    ELSE [s |-> s, pc |-> "backoff"]

\* connect() lines 131-140: websockets.connect raised.
cs_connect_failed(s) ==
    LET s1 == CsEmit([s EXCEPT !.is_connected = FALSE,
                               !.connection_error = "refused"],
                     "on_error", "refused")
    IN  IF s1.should_reconnect THEN cs_schedule_reconnect(s1)
        ELSE [s |-> s1, pc |-> "resume"]

\* _schedule_reconnect after its sleep (lines 283-284).
cs_backoff_over(s, susp) ==
    IF s.should_reconnect THEN cs_connect_call(s, susp)
    ELSE [s |-> s, pc |-> "resume"]

\* The finally clause of _receive_messages (lines 226-229).
cs_receive_finally(s) ==
    LET s1 == [s EXCEPT !.is_connected = FALSE]
    IN  IF s1.should_reconnect /\ s1.current_endpoint # "None"
          THEN cs_schedule_reconnect(s1)
          ELSE [s |-> s1, pc |-> "resume"]

\* while self.websocket and self.is_connected
cs_loop_continues(s) == s.websocket # NoSocket /\ s.is_connected

CsEnvInit ==
    [ gen |-> 0,
      open |-> [g \in 0..MaxCsGen |-> FALSE],
      frames |-> 0,
      host_calls |-> 0,
      last_frame |-> CsNoFrame,
      auto_pending |-> FALSE ]

CsStart ==
    /\ cs = CsInit
    /\ csThread = [T \in CsThreads |->
           IF T = Host THEN [CsThreadNone EXCEPT !.pc = "idle"] ELSE CsThreadNone]
    /\ csEnv = CsEnvInit

\* Whether close() of the socket s holds suspends its caller: closing an
\* open socket does, closing one that is already closed may or may not.
SuspChoices(s) ==
    IF s.websocket # NoSocket /\ ~csEnv.open[s.websocket] THEN BOOLEAN ELSE {TRUE}

\* Where the coroutine T goes on when connect() (or the reconnect it was
\* in) returns to it: search_context looks at is_connected (lines 175-190),
\* connect_for_search returns, the receive task ends.
CsLand(T, r) ==
    IF r.pc # "resume" THEN r
    ELSE IF T = Host /\ csThread[T].op = "search" /\ r.s.is_connected
      THEN [s |-> [r.s EXCEPT !.is_searching = TRUE], pc |-> "sending"]
    ELSE IF T = Host THEN [s |-> r.s, pc |-> "idle"]
    ELSE [s |-> r.s, pc |-> "done"]

\* The coroutines after T ran the code whose outcome is r; when closes, that
\* code went through disconnect() in the state s0: the task receive_task
\* names is cancelled and close() is called on the socket.
CsStep(T, op, r, closes, s0) ==
    LET victim == Recv(s0.receive_task)
        l == CsLand(T, r)
    IN  /\ cs' = l.s
        /\ csThread' = [U \in CsThreads |->
               LET hit == closes /\ U = victim /\ csThread[U].pc \notin {"none", "done"}
               IN  IF U = T
                     THEN [csThread[U] EXCEPT !.pc = l.pc, !.op = op,
                                              !.sock = NoSocket,
                                              !.cancel = @ \/ hit]
                     ELSE [csThread[U] EXCEPT !.cancel = @ \/ hit]]

CsClose(e, closes, s0) ==
    IF closes THEN [e EXCEPT !.open[s0.websocket] = FALSE] ELSE e

CsIdle == csThread[Host].pc = "idle" /\ csEnv.host_calls < MaxCsHostCalls

\* def connect_for_search up to the first suspension of connect().
CsConnectForSearch(m) ==
    /\ CsIdle
    /\ LET s0 == [CsFresh(cs) EXCEPT !.current_endpoint = m]
           closes == s0.websocket # NoSocket
       IN  \E susp \in SuspChoices(s0) :
               /\ CsStep(Host, "connect", cs_connect_call(s0, susp), closes, s0)
               /\ csEnv' = [CsClose(csEnv, closes, s0) EXCEPT
                                !.host_calls = @ + 1, !.auto_pending = FALSE]
    /\ UNCHANGED nonCtx

\* AutoContextManager.search_context (is_loading = True), then
\* ContextSearchAPI.search_context up to its first suspension: the send when
\* connected, else connect_for_search() with the default method.
CsSearch ==
    /\ CsIdle
    /\ IF cs.is_connected
         THEN /\ CsStep(Host, "search",
                        [s |-> [CsFresh(cs) EXCEPT !.is_loading = TRUE,
                                                   !.is_searching = TRUE],
                         pc |-> "sending"], FALSE, cs)
              /\ csEnv' = [csEnv EXCEPT !.host_calls = @ + 1]
         ELSE LET s0 == [CsFresh(cs) EXCEPT !.is_loading = TRUE,
                                            !.current_endpoint = DefaultEndpoint]
                  closes == s0.websocket # NoSocket
              IN  \E susp \in SuspChoices(s0) :
                      /\ CsStep(Host, "search", cs_connect_call(s0, susp), closes, s0)
                      /\ csEnv' = [CsClose(csEnv, closes, s0) EXCEPT
                                       !.host_calls = @ + 1, !.auto_pending = FALSE]
    /\ UNCHANGED nonCtx

\* "await self.websocket.send(request_json)" returns, or raises (lines 192-198).
CsSent ==
    /\ csThread[Host].pc = "sending"
    /\ LET ok == cs.websocket # NoSocket /\ csEnv.open[cs.websocket]
       IN  cs' = IF ok THEN CsFresh(cs)
                 ELSE CsEmit([CsFresh(cs) EXCEPT !.is_searching = FALSE,
                                                 !.connection_error = "send"],
                             "on_error", "send")
    /\ csThread' = [csThread EXCEPT ![Host].pc = "idle"]
    /\ UNCHANGED <<csEnv, nonCtx>>

\* def disconnect up to its first suspension.
CsDisconnect ==
    /\ CsIdle
    /\ LET s1 == cs_disconnect_enter(CsFresh(cs))
           closes == cs.websocket # NoSocket
       IN  /\ CsStep(Host, "disconnect",
                     IF closes THEN [s |-> s1, pc |-> "disc_closing"]
                     ELSE [s |-> cs_disconnect_finish(s1), pc |-> "idle"],
                     TRUE, cs)
           /\ csEnv' = [CsClose(csEnv, closes, cs) EXCEPT
                            !.host_calls = @ + 1, !.auto_pending = FALSE]
    /\ UNCHANGED nonCtx

\* "await self.websocket.close()" of disconnect() returns.
CsDisconnected ==
    /\ csThread[Host].pc = "disc_closing"
    /\ cs' = cs_disconnect_finish(CsFresh(cs))
    /\ csThread' = [csThread EXCEPT ![Host].pc = "idle"]
    /\ UNCHANGED <<csEnv, nonCtx>>

CsRuns(T, pc) == csThread[T].pc = pc /\ ~csThread[T].cancel

\* The close() of the disconnect() inside connect() returns: the rest of
\* disconnect(), then connect() goes on to websockets.connect.
CsConnClosed(T) ==
    /\ CsRuns(T, "conn_closing")
    /\ cs' = cs_disconnect_finish(CsFresh(cs))
    /\ csThread' = [csThread EXCEPT ![T].pc = "connecting"]
    /\ UNCHANGED <<csEnv, nonCtx>>

\* websockets.connect returns the socket (lines 113-129).
CsOpened(T) ==
    /\ CsRuns(T, "connecting")
    /\ csEnv.gen < MaxCsGen
    /\ LET g == csEnv.gen + 1
           l == CsLand(T, [s |-> cs_connect_opened(CsFresh(cs), g), pc |-> "resume"])
       IN  /\ cs' = l.s
           /\ csThread' = [U \in CsThreads |->
                  IF U = T THEN [csThread[U] EXCEPT !.pc = l.pc]
                  ELSE IF U = Recv(g) THEN [CsThreadNone EXCEPT !.pc = "start"]
                  ELSE csThread[U]]
           /\ csEnv' = [csEnv EXCEPT !.gen = g, !.open[g] = TRUE,
                                     !.auto_pending = FALSE]
    /\ UNCHANGED nonCtx

\* websockets.connect raises (lines 131-140).
CsRefused(T) ==
    /\ CsRuns(T, "connecting")
    /\ CsStep(T, csThread[T].op, cs_connect_failed(CsFresh(cs)), FALSE, cs)
    /\ UNCHANGED <<csEnv, nonCtx>>

\* The sleep of _schedule_reconnect is over (lines 283-284).
CsBackoffOver(T) ==
    /\ CsRuns(T, "backoff")
    /\ LET s0 == CsFresh(cs)
           closes == s0.should_reconnect /\ s0.websocket # NoSocket
       IN  \E susp \in SuspChoices(s0) :
               /\ CsStep(T, csThread[T].op, cs_backoff_over(s0, susp), closes, s0)
               /\ csEnv' = CsClose(csEnv, closes, s0)
    /\ UNCHANGED nonCtx

\* The head of the loop of _receive_messages: wait on the socket, or leave
\* through the finally clause.
CsReceiveLoop(g, s) ==
    IF cs_loop_continues(s)
      THEN /\ cs' = s
           /\ csThread' = [csThread EXCEPT ![Recv(g)].pc = "receiving",
                                           ![Recv(g)].sock = s.websocket]
      ELSE CsStep(Recv(g), "none", cs_receive_finally(s), FALSE, s)

CsRecvStart(g) ==
    /\ CsRuns(Recv(g), "start")
    /\ CsReceiveLoop(g, CsFresh(cs))
    /\ UNCHANGED <<csEnv, nonCtx>>

\* recv() returns a text frame: _handle_message, then the loop head.
CsRecvFrame(g, f) ==
    /\ CsRuns(Recv(g), "receiving")
    /\ csEnv.open[csThread[Recv(g)].sock]
    /\ csEnv.frames < MaxCsFrames
    /\ CsReceiveLoop(g, cs_handle_message(CsFresh(cs), f))
    /\ csEnv' = [csEnv EXCEPT !.frames = @ + 1, !.last_frame = f]
    /\ UNCHANGED nonCtx

\* recv() raises ConnectionClosed (or anything else): break, then finally.
CsRecvLost(g) ==
    /\ CsRuns(Recv(g), "receiving")
    /\ ~csEnv.open[csThread[Recv(g)].sock]
    /\ CsStep(Recv(g), "none", cs_receive_finally(CsFresh(cs)), FALSE, cs)
    /\ csEnv' = [csEnv EXCEPT !.auto_pending =
                     @ \/ (cs.should_reconnect /\ cs.current_endpoint # "None")]
    /\ UNCHANGED nonCtx

\* The server or the network closes the socket g.
CsServerDrops(g) ==
    /\ csEnv.open[g]
    /\ csEnv' = [csEnv EXCEPT !.open[g] = FALSE]
    /\ UNCHANGED <<cs, csThread, nonCtx>>

\* The CancelledError of task.cancel() is raised in the task where it is
\* suspended.  In recv() it passes the except clauses and runs the finally
\* clause; in the finally clause (the reconnect) or before the task's first
\* step it ends the task.
CsCancelled(g) ==
    /\ csThread[Recv(g)].cancel
    /\ csThread[Recv(g)].pc \notin {"none", "done"}
    /\ IF csThread[Recv(g)].pc = "receiving"
         THEN LET l == CsLand(Recv(g), cs_receive_finally(CsFresh(cs)))
              IN  /\ cs' = l.s
                  /\ csThread' = [csThread EXCEPT ![Recv(g)] =
                         [CsThreadNone EXCEPT !.pc = l.pc]]
         ELSE /\ cs' = CsFresh(cs)
              /\ csThread' = [csThread EXCEPT ![Recv(g)] =
                     [CsThreadNone EXCEPT !.pc = "done"]]
    /\ UNCHANGED <<csEnv, nonCtx>>

CtxNext ==
    \/ \E m \in CsEndpoints : CsConnectForSearch(m)
    \/ CsSearch
    \/ CsSent
    \/ CsDisconnect
    \/ CsDisconnected
    \/ \E T \in CsThreads : CsConnClosed(T)
    \/ \E T \in CsThreads : CsOpened(T)
    \/ \E T \in CsThreads : CsRefused(T)
    \/ \E T \in CsThreads : CsBackoffOver(T)
    \/ \E g \in CsGens : CsRecvStart(g)
    \/ \E g \in CsGens, f \in CsFrames : CsRecvFrame(g, f)
    \/ \E g \in CsGens : CsRecvLost(g)
    \/ \E g \in CsGens : CsServerDrops(g)
    \/ \E g \in CsGens : CsCancelled(g)

Init == ChatInit /\ TagStart /\ CsStart

\* The Tag Sync session alone: the Chat session stays as constructed.
TagOnlyInit == Init /\ ai = AIInit(TRUE, TRUE)

SpecChat == Init /\ [][ChatNext]_vars
SpecChatConn == Init /\ [][ChatConnNext]_vars

\* Hosts that send whenever they like (the UI and the WebSocket server both
\* call the manager), on a provider that neither fails nor is stopped.
ChatBusyNext ==
    \/ \E c \in Callers, k \in Kinds, a \in ArgSets : SendEnter(c, k, a)
    \/ \E c \in Callers : SendConnected(c, TRUE)
    \/ \E c \in Callers, ch \in Chunks : StreamChunk(c, ch)
    \/ \E c \in Callers : StreamExhausted(c)

SpecChatBusy == Init /\ [][ChatBusyNext]_vars

TagMirrorNext ==
    \/ \E tenant \in {Tenant} : TagInitialize(tenant)
    \/ TagRefresh
    \/ \E r \in FetchResults : TagFetched(r)
    \/ ChainOpened(Host)
    \/ \E g \in Gens : RecvStart(g)
    \/ \E g \in Gens, f \in Frames : RecvFrame(g, f)

SpecTagMirror == TagOnlyInit /\ [][TagMirrorNext]_vars

TagConnNext ==
    \/ \E tenant \in {Tenant, ""} : TagInitialize(tenant)
    \/ TagRefresh
    \/ \E r \in {x \in FetchResults : x.tags = <<>>} : TagFetched(r)
    \/ TagConnect
    \/ TagDisconnect
    \/ TagSocketClosed
    \/ TagSessionClosed
    \/ \E T \in Threads : tgEnv.gen < MaxConnGen /\ ChainOpened(T)
    \/ \E T \in Threads : ChainRefused(T)
    \/ \E T \in Threads : ChainBackoffOver(T)
    \/ \E T \in Threads : ChainClosed(T)
    \/ \E g \in Gens : RecvStart(g)
    \/ \E g \in Gens : RecvLost(g)
    \/ \E g \in Gens : ServerDrops(g)
    \/ \E g \in Gens : MonStart(g)
    \/ \E g \in Gens : MonWake(g)

SpecTagConn == TagOnlyInit /\ [][TagConnNext]_vars

\* Shutdown of a session whose server accepts every connection: the host
\* connects and disconnects, the server drops sockets.
TagShutdownNext ==
    \/ TagConnect
    \/ TagDisconnect
    \/ TagSocketClosed
    \/ \E T \in Threads : ChainOpened(T)
    \/ \E T \in Threads : ChainBackoffOver(T)
    \/ \E T \in Threads : ChainClosed(T)
    \/ \E g \in Gens : RecvStart(g)
    \/ \E g \in Gens : RecvLost(g)
    \/ \E g \in Gens : ServerDrops(g)
    \/ \E g \in Gens : MonStart(g)
    \/ \E g \in Gens : MonWake(g)

SpecTagShutdown == TagOnlyInit /\ [][TagShutdownNext]_vars

\* A session started by initialize() whose server accepts every connection
\* and answers every fetch, drops sockets and sends frames.
ResumeFrames ==
    {f \in Frames : f.type = "connection"
                     \/ (f.action = "created" /\ f.data.shape = "ok"
                           /\ f.data.uniqueid = "1" /\ f.data.name = <<"u">>
                           /\ f.data.color = <<"r">>)}

TagResumeNext ==
    \/ tgEnv.host_calls = 0 /\ TagInitialize(Tenant)
    \/ TagRefresh
    \/ \E r \in {x \in FetchResults : x.status = "200" /\ Len(x.tags) <= 1} : TagFetched(r)
    \/ \E T \in Threads : tgEnv.gen < MaxResumeGen /\ ChainOpened(T)
    \/ \E T \in Threads : ChainBackoffOver(T)
    \/ \E T \in Threads : ChainClosed(T)
    \/ \E g \in Gens : RecvStart(g)
    \/ \E g \in Gens, f \in ResumeFrames : RecvFrame(g, f)
    \/ \E g \in Gens : RecvLost(g)
    \/ \E g \in Gens : ServerDrops(g)
    \/ \E g \in Gens : MonStart(g)
    \/ \E g \in Gens : MonWake(g)

SpecTagResume == TagOnlyInit /\ [][TagResumeNext]_vars

SpecCtx == TagOnlyInit /\ [][CtxNext]_vars

\* The event loop resumes the host's coroutine whenever what it awaits is
\* over: a send, a close, a connection attempt (which the backend accepts
\* or refuses), the reconnect delay.
CsHostStep ==
    \/ CsSent
    \/ CsDisconnected
    \/ CsConnClosed(Host)
    \/ CsOpened(Host)
    \/ CsRefused(Host)
    \/ CsBackoffOver(Host)

SpecCtxLive == TagOnlyInit /\ [][CtxNext]_vars /\ WF_vars(CsHostStep)

(***************************************************************************)
(* Chat: properties of one request's stream.                               *)
(***************************************************************************)
RECURSIVE Concat(_)
Concat(q) == IF q = <<>> THEN <<>> ELSE Head(q) \o Concat(Tail(q))

\* The positions in ai.calls of the calls of callback cb made for request c.
CallIdx(c, cb) ==
    {i \in 1..Len(ai.calls) : ai.calls[i].req = c /\ ai.calls[i].cb = cb}

\* Their arguments, in the order of the calls.
CallArgs(c, cb) ==
    LET sel == SelectSeq(ai.calls, LAMBDA e : e.req = c /\ e.cb = cb)
    IN  [i \in 1..Len(sel) |-> sel[i].arg]

Finished(c) ==
    aiReq[c].provided # <<>> /\ aiReq[c].provided[Len(aiReq[c].provided)].finish

Undisturbed(c) ==
    /\ aiReq[c].kind = "streaming"
    /\ aiReq[c].stop_k = -1
    /\ aiReq[c].pc \in {"streaming", "waiting", "returned"}

\* C1: a send_message_streaming request that is neither stopped nor failed by
\* the provider has, at every moment, made one on_chunk_received call per
\* content token received, in the order of the tokens; and once the chunk with
\* a finish_reason has been received it has made exactly one
\* on_response_complete call, after all the chunk calls, carrying the
\* concatenation of the tokens, and none before.
C1_StreamingDelivery ==
    \A c \in Callers : Undisturbed(c) =>
        /\ CallArgs(c, "on_chunk_received") = TokensOf(aiReq[c].provided)
        /\ IF Finished(c)
             THEN /\ CallArgs(c, "on_response_complete")
                        = <<Concat(TokensOf(aiReq[c].provided))>>
                  /\ \A i \in CallIdx(c, "on_chunk_received"),
                        j \in CallIdx(c, "on_response_complete") : i < j
             ELSE CallArgs(c, "on_response_complete") = <<>>

C1_Witness ==
    \E c \in Callers :
        /\ Undisturbed(c) /\ Finished(c)
        /\ aiReq[c].provided[Len(aiReq[c].provided)].content = None
        /\ TokensOf(aiReq[c].provided) = << <<"b">>, <<"a">> >>

\* C2: once stop_generation has been called while a streaming request had
\* received k content tokens, that request makes at most k on_chunk_received
\* calls in total and never an on_response_complete call.
C2_StopBoundsChunks ==
    \A c \in Callers :
        (aiReq[c].kind = "streaming" /\ aiReq[c].stop_k >= 0) =>
            /\ Len(CallArgs(c, "on_chunk_received")) <= aiReq[c].stop_k
            /\ CallArgs(c, "on_response_complete") = <<>>

\* A request stopped after one token, to which the provider then yielded a
\* further token together with the finish_reason.
C2_Witness ==
    \E c \in Callers :
        /\ aiReq[c].kind = "streaming" /\ aiReq[c].stop_k = 1
        /\ Len(TokensOf(aiReq[c].provided)) = 2
        /\ Finished(c)

\* C3: when the receive loop of a request is over, the completion signal the
\* caller awaits has been set, so no caller stays suspended in
\* "await self._current_response_event.wait()".
C3_CompletionSignalSet ==
    \A c \in Callers :
        aiReq[c].pc = "waiting" => ai.event_set[aiReq[c].wait_on]

(***************************************************************************)
(* Tag Sync: properties of the mirror and of the connection.               *)
(***************************************************************************)
EntriesOf(tags, id) == SelectSeq(tags, LAMBDA x : x.id = id)

\* C4: from a mirror without duplicate ids, after any sequence of frames the
\* mirror holds exactly one entry for each id whose last applied frame was
\* created or updated, with the name and color of that frame, and no entry for
\* an id whose last applied frame was deleted.
C4_MirrorMatchesReference ==
    tgEnv.ref_ok => \A id \in Ids : EntriesOf(tg.tags, id) = tgEnv.ref[id]

\* C4 witness: a fetched list of two tags, then an update of an entry that
\* is there and another applied frame.
C4_Witness ==
    /\ tgEnv.ref_ok /\ tgEnv.after_update
    /\ tgEnv.host_calls = 1 /\ tgEnv.frames = 2
    /\ tgEnv.last_applied = [action |-> "updated", hit |-> TRUE]
    /\ tg.tags = <<Tag("1", <<"v">>, <<"r">>), Tag("2", <<"u">>, <<"r">>)>>

\* C5: once an update or delete frame has been applied, no two entries of the
\* tag list have the same id, whatever list the fetch returned.
C5_NoDuplicateIds == tgEnv.after_update => NoDup(tg.tags)

\* C6: when the full fetch of initialize fails, initialize opens no socket.
C6_FailedFetchStopsInitialize ==
    tgEnv.init_fetch_failed =>
        /\ tgEnv.init_socket = NoSocket
        /\ ~(tgThread[Host].op = "initialize" /\ tgThread[Host].pc = "connecting")

\* C7: at most one call of connect() is waiting for its socket to open.
C7_SingleConnectAttempt ==
    Cardinality({T \in Threads : tgThread[T].pc = "connecting"}) <= 1

\* C8: after a connection loss, with every connection refused, the session
\* makes at most max_reconnection_attempts automatic attempts.
C8_AttemptCeiling == tgEnv.auto_attempts <= MaxReconnectionAttempts

(***************************************************************************)
(* The reconnection delays of both sessions over consecutive failures.     *)
(* bk holds, for each session, the number n of consecutive failed          *)
(* attempts, the delay computed for the n-th and the one computed before.  *)
(***************************************************************************)
\* _attempt_reconnection lines 463-465: the counter goes up, then the delay
\* is computed from it.
ChatAttemptFails ==
    /\ bk.chat_n < MaxReconnectionAttempts
    /\ bk' = [bk EXCEPT !.chat_n = @ + 1,
                        !.chat_prev = bk.chat_delay,
                        !.chat_delay = chat_wait_time(bk.chat_n + 1)]
    /\ UNCHANGED <<ai, aiReq, aiLoop, aiEnv, tagVars, ctxVars>>

\* _handle_connection_error lines 416-419.
TagAttemptFails ==
    /\ bk.tag_n < MaxReconnectionAttempts
    /\ bk' = [bk EXCEPT !.tag_n = @ + 1,
                        !.tag_prev = bk.tag_delay,
                        !.tag_delay = tag_delay(bk.tag_n + 1)]
    /\ UNCHANGED <<ai, aiReq, aiLoop, aiEnv, tagVars, ctxVars>>

\* A successful connect sets reconnection_attempts to 0.
ChatAttemptSucceeds ==
    /\ bk.chat_n > 0
    /\ bk' = [bk EXCEPT !.chat_n = 0, !.chat_prev = 0, !.chat_delay = 0]
    /\ UNCHANGED <<ai, aiReq, aiLoop, aiEnv, tagVars, ctxVars>>

TagAttemptSucceeds ==
    /\ bk.tag_n > 0
    /\ bk' = [bk EXCEPT !.tag_n = 0, !.tag_prev = 0, !.tag_delay = 0]
    /\ UNCHANGED <<ai, aiReq, aiLoop, aiEnv, tagVars, ctxVars>>

BackoffNext ==
    \/ ChatAttemptFails
    \/ TagAttemptFails
    \/ ChatAttemptSucceeds
    \/ TagAttemptSucceeds

SpecBackoff == TagOnlyInit /\ [][BackoffNext]_vars

\* C10: over consecutive failed attempts the delay never exceeds the cap (60
\* for Chat, 30 for Tag Sync), never decreases, and is twice the previous
\* delay as long as that stays below the cap.
C10_BackoffShape ==
    /\ bk.chat_delay <= ChatDelayCap
    /\ bk.tag_delay <= TagDelayCap
    /\ bk.chat_n >= 2 =>
           /\ bk.chat_prev <= bk.chat_delay
           /\ bk.chat_delay = Min(2 * bk.chat_prev, ChatDelayCap)
    /\ bk.tag_n >= 2 =>
           /\ bk.tag_prev <= bk.tag_delay
           /\ bk.tag_delay = Min(2 * bk.tag_prev, TagDelayCap)

\* C10 witness: ten consecutive failures of both sessions, both delays at
\* their caps.
C10_Witness ==
    /\ bk.chat_n = MaxReconnectionAttempts /\ bk.chat_delay = ChatDelayCap
    /\ bk.tag_n = MaxReconnectionAttempts /\ bk.tag_delay = TagDelayCap

(***************************************************************************)
(* Chat and Tag Sync: the attempt counter at connect and disconnect.       *)
(***************************************************************************)
\* The step in which a connect() of the Chat session succeeds.
ChatConnectSucceeds ==
    /\ ai'.is_connected
    /\ Len(ai'.conn_calls) = Len(ai.conn_calls) + 1
    /\ ai'.conn_calls[Len(ai'.conn_calls)]

\* The step in which the host's disconnect() of the Chat session returns.
ChatDisconnectReturns ==
    /\ aiEnv'.host = "idle"
    /\ \/ aiEnv.host \in {"awaiting_task", "closing"}
       \/ aiEnv'.disconnects > aiEnv.disconnects

\* C11: reconnection_attempts is 0 right after every successful connect() and
\* right after every manual disconnect().
C11_CounterResets ==
    [][(ChatConnectSucceeds \/ ChatDisconnectReturns) => ai'.reconnection_attempts = 0]_vars

(***************************************************************************)
(* Disconnecting twice.                                                    *)
(***************************************************************************)
\* The host calls disconnect() of the Chat session right after a disconnect()
\* that it had called on the connected session.
ChatSecondDisconnect ==
    /\ aiEnv.host = "idle"
    /\ aiEnv.last_op = "disconnect_connected"
    /\ aiEnv'.disconnects > aiEnv.disconnects

\* C12: of two disconnect() calls in a row on a connected session the second
\* changes no session state and delivers no callback, so that the two deliver
\* exactly one on_connection_changed(false).
C12_SecondDisconnectSilent == [][ChatSecondDisconnect => ai' = ai]_vars

(***************************************************************************)
(* Shutdown.                                                               *)
(***************************************************************************)
\* The host's latest call of the Tag Sync session was disconnect(), and it
\* has returned.
TagDisconnectReturned ==
    tgThread[Host].op = "disconnect" /\ tgThread[Host].pc = "idle"

\* C13: once disconnect() has returned, and until a caller connects again,
\* is_connected is false and no socket is held.
C13_ShutdownHolds ==
    TagDisconnectReturned => ~tg.is_connected /\ tg.websocket = NoSocket

(***************************************************************************)
(* Context Search: properties.                                             *)
(***************************************************************************)
\* C14: after the receive loop ended on a lost connection with
\* should_reconnect true and an endpoint selected, and until the session is
\* connected again or a caller connects or disconnects, a reconnection is
\* under way: some coroutine is in the reconnect delay or in the connect()
\* that follows it.
C14_ReconnectUnderWay ==
    csEnv.auto_pending =>
        \E T \in CsThreads : csThread[T].pc \in {"backoff", "conn_closing", "connecting"}

\* The receive loop handed a frame to _handle_message in this step.
CsFrameHandled == csEnv'.frames > csEnv.frames

\* C15: a frame carrying an error envelope makes exactly one callback,
\* on_error with its message, clears is_searching and leaves the stored result
\* set as it was; a well-formed result frame replaces the stored result set by
\* the new one, clears is_searching and makes exactly one callback,
\* on_results_received with the new result set.
C15_ResponseHandling ==
    [][CsFrameHandled =>
        /\ csEnv'.last_frame.kind = "error" =>
              /\ cs'.calls = <<[cb |-> "on_error", arg |-> csEnv'.last_frame.val]>>
              /\ ~cs'.is_searching
              /\ cs'.search_results = cs.search_results
        /\ csEnv'.last_frame.kind = "result" =>
              /\ cs'.calls = <<[cb |-> "on_results_received",
                                arg |-> csEnv'.last_frame.val]>>
              /\ ~cs'.is_searching
              /\ cs'.search_results = csEnv'.last_frame.val]_vars

\* An error envelope has just been handled while a result set was stored and
\* a search was outstanding no more: the result set is still there.
C15_Witness ==
    /\ csEnv.last_frame.kind = "error"
    /\ cs.calls = <<[cb |-> "on_error", arg |-> "e"]>>
    /\ cs.search_results \in CsResults
    /\ ~cs.is_searching

TagCallbacks == {"on_tag_created", "on_tag_updated", "on_tag_deleted"}

\* C16: a tag_update frame with action created or updated whose data has no
\* name or no colour, or an empty one, leaves the tag list as it was and makes
\* none of the callbacks on_tag_created, on_tag_updated, on_tag_deleted.
C16_MalformedFrameIgnored ==
    [][(tgEnv'.frames > tgEnv.frames /\ tgEnv'.malformed) =>
        /\ tg'.tags = tg.tags
        /\ \A i \in 1..Len(tg'.calls) : tg'.calls[i].cb \notin TagCallbacks]_vars

\* Such a frame has just been handled while the list held a tag.
C16_Witness ==
    /\ tgEnv.malformed
    /\ tgEnv.frames > 0
    /\ tg.tags # <<>>
    /\ tg.calls = <<>>

\* The frame handled in this step is a protocol failure: not JSON, JSON the
\* handler cannot read, or an object without the members of a response.
CsProtocolFailure == csEnv'.last_frame.kind \in {"invalid", "bad", "other"}

\* C17: in the Context Search session a frame that is a protocol failure is
\* dropped and nothing else: is_connected, the socket handle and the receive
\* task are as before, the frame is not applied to the stored result set and
\* is not announced as a result.
C17_FrameDroppedAlone ==
    [][(CsFrameHandled /\ CsProtocolFailure) =>
        /\ cs'.is_connected = cs.is_connected
        /\ cs'.websocket = cs.websocket
        /\ cs'.receive_task = cs.receive_task
        /\ cs'.search_results = cs.search_results
        /\ \A i \in 1..Len(cs'.calls) : cs'.calls[i].cb # "on_results_received"]_vars

\* C18: a live frame is consumed only when the full fetch has been run since
\* the last loss of the connection.
C18_RefetchBeforeFrames ==
    [][tgEnv'.frames > tgEnv.frames => ~tgEnv.stale]_vars

\* The host's connect() ends in this step, and it has failed: its one
\* connection callback carried false.
ChatConnectFails ==
    /\ aiEnv'.host = "idle"
    /\ aiEnv.host = "connecting" \/ aiEnv'.connects > aiEnv.connects
    /\ Len(ai'.conn_calls) = Len(ai.conn_calls) + 1
    /\ ~ai'.conn_calls[Len(ai'.conn_calls)]

\* C19: a connect() that fails, for want of the provider library or of an API
\* key or because the validation call raised, leaves is_connected false and
\* ends by raising to its caller.
C19_FailedConnectRaises ==
    [][ChatConnectFails =>
        ~ai'.is_connected /\ aiEnv'.last_op = "connect_raised"]_vars

\* The provider request of c, or the iteration of its stream, raises in this
\* step and the exception leaves send_message or send_message_streaming.
ChatRequestRaises(c) == OnProvider(c) /\ aiReq'[c].pc = "raised"

\* C20: when the provider's request or its stream raises during a send, the
\* exception reaches the caller of that send and is_receiving is false
\* afterwards.
C20_FailureClearsReceiving ==
    [][\A c \in Callers : ChatRequestRaises(c) => ~ai'.is_receiving]_vars

\* A streaming request has failed, and a request sent after the failure has
\* received its finish_reason and returned to its caller.
C20_Witness ==
    \E c1, c2 \in Callers :
        /\ c1 # c2
        /\ aiReq[c1].pc = "raised" /\ aiReq[c1].kind = "streaming"
        /\ CallArgs(c1, "on_thinking_changed")
               = <<BoolStr(TRUE), BoolStr(FALSE), BoolStr(FALSE)>>
        /\ aiReq[c2].pc = "returned" /\ Finished(c2)
        /\ ~ai.is_receiving
        /\ \E j \in 1..Len(ai.calls) : ai.calls[j].req = c2
        /\ \A i, j \in 1..Len(ai.calls) :
               (ai.calls[i].req = c1 /\ ai.calls[j].req = c2) => i < j

\* The stream buffer holds the partial text of the streaming request c, which
\* stop_generation cancelled: c was the last request to begin, it was stopped
\* while on the provider, and its loop ended without a finish_reason.
CancelledPartial(c) ==
    /\ aiReq[c].kind = "streaming" /\ aiReq[c].stop_k >= 0
    /\ aiReq[c].pc = "waiting"
    /\ ai.current_response_event = c
    /\ ai.message_stream # <<>>

\* C21: while the stream buffer holds the partial text of a cancelled
\* request, no step adds an assistant entry to message_history or to
\* last_messages.
C21_PartialNeverPromoted ==
    [][(\E c \in Callers : CancelledPartial(c)) =>
        /\ \A i \in 1..Len(ai'.message_history) :
               i > Len(ai.message_history) => ai'.message_history[i].role = "user"
        /\ \A i \in 1..Len(ai'.last_messages) :
               i > Len(ai.last_messages) => ai'.last_messages[i].is_user]_vars

\* C22: at most one request is on the provider at any time.
C22_OneRequestOutstanding ==
    Cardinality({c \in Callers : OnProvider(c)}) <= 1

\* No coroutine of the Context Search session is running or suspended.
CsQuiescent == \A T \in CsThreads : csThread[T].pc \in {"idle", "none", "done"}

\* C23: whenever the Context Search session is quiescent, the last value
\* delivered to on_connection_changed (false before any call) is is_connected.
C23_CallbackTracksState == CsQuiescent => cs.conn_last = cs.is_connected

\* The request c has run to its completion sentinel: its loop received the
\* chunk with a finish_reason and did not break on the cancellation flag.
Completed(c) ==
    /\ Finished(c)
    /\ aiReq[c].kind = "blocking" \/ aiReq[c].stop_k = -1

\* The place of the user message of c in message_history: the request sent to
\* the provider ends with it.
UserIndex(c) == Len(aiReq[c].api_messages)

\* C24: a request that has run to its completion sentinel has added two
\* adjacent entries to message_history: a user message holding its enhanced
\* prompt, then an assistant message holding the concatenation of the tokens
\* of its response; and the history holds no assistant message but those of
\* completed requests.
C24_HistoryOnCompletion ==
    /\ \A c \in Callers :
          Completed(c) =>
              /\ Len(ai.message_history) >= UserIndex(c) + 1
              /\ ai.message_history[UserIndex(c)]
                     = [role |-> "user",
                        content |-> create_enhanced_prompt(aiReq[c].args[1],
                                        aiReq[c].args[2], aiReq[c].args[3],
                                        aiReq[c].args[4], aiReq[c].args[5])]
              /\ ai.message_history[UserIndex(c) + 1]
                     = [role |-> "assistant",
                        content |-> Concat(TokensOf(aiReq[c].provided))]
    /\ \A i \in 1..Len(ai.message_history) :
          ai.message_history[i].role = "assistant" =>
              \E c \in Callers : Completed(c) /\ UserIndex(c) + 1 = i

\* From an empty history, one request has completed on a response of two
\* tokens: the history is its user message and its assistant message.
C24_Witness ==
    /\ Completed(1)
    /\ aiReq[1].pc = "returned" /\ aiReq[2].pc = "idle"
    /\ Len(TokensOf(aiReq[1].provided)) = 2
    /\ Len(ai.message_history) = 2
    /\ ai.message_history[1].role = "user"
    /\ ai.message_history[2] = [role |-> "assistant",
                                content |-> Concat(TokensOf(aiReq[1].provided))]

\* C25: every search_context call returns to its caller.
C25_SearchReturns ==
    (csThread[Host].op = "search" /\ csThread[Host].pc # "idle")
        ~> (csThread[Host].pc = "idle")

\* The host calls connect() in this step.
TagConnectCalled ==
    /\ tgEnv'.host_calls = tgEnv.host_calls + 1
    /\ tgThread'[Host].op = "connect"

\* C26: a connect() called while the session is connected, or after
\* disconnect() requested the shutdown, returns at once and changes nothing:
\* no field of the session, no socket, no background task, no callback.
C26_ConnectIdempotent ==
    [][(TagConnectCalled /\ (tg.is_connected \/ ~tg.should_maintain_connection)) =>
        /\ tg' = Fresh(tg)
        /\ tg'.conn_last = tg.conn_last
        /\ tgThread'[Host].pc = "idle"
        /\ \A T \in Tasks : tgThread'[T] = tgThread[T]
        /\ tgEnv'.open = tgEnv.open /\ tgEnv'.gen = tgEnv.gen]_vars

C28_LoopsEndedAtReturn ==
    TagDisconnectReturned => \A T \in Tasks : tgThread[T].pc \in {"none", "done"}

\* The connection monitors, and the receive loops, that are in their loop.
MonitorsAlive == {g \in Gens : tgThread[Mon(g)].pc \notin {"none", "done"}}
ReceiversAlive == {g \in Gens : tgThread[Recv(g)].pc \in {"start", "receiving"}}

\* C29: at most one connection monitor and at most one receive loop of the
\* Tag Sync session are alive at any time.
C29_OneLoopInstance ==
    Cardinality(MonitorsAlive) <= 1 /\ Cardinality(ReceiversAlive) <= 1

\* C30: a connected Tag Sync session holds a socket.
C30_ConnectedHoldsSocket == tg.is_connected => tg.websocket # NoSocket

\* The provider ended the stream of c without a finish_reason and without
\* raising, and c was not stopped.
StreamCutShort(c) ==
    aiReq[c].pc = "waiting" /\ aiReq[c].stop_k = -1 /\ ~Finished(c)

\* C31: is_receiving is true only while some request is on the provider (or
\* was left by a stream that ended without its completion sentinel): after a
\* completion, a provider error or a cancellation it is false.
C31_ReceivingMeansStream ==
    ai.is_receiving => \E c \in Callers : OnProvider(c) \/ StreamCutShort(c)

\* A caller invokes disconnect() of the Context Search session in this step.
CsDisconnectCalled ==
    /\ csEnv'.host_calls = csEnv.host_calls + 1
    /\ csThread'[Host].op = "disconnect"

\* C32: should_reconnect goes from true to false only in a step in which a
\* caller invokes disconnect().
C32_OnlyDisconnectDisables ==
    [][(cs.should_reconnect /\ ~cs'.should_reconnect) => CsDisconnectCalled]_vars

\* The event loop also resumes the receive task g whenever what it awaits
\* is over: its start, a recv() on a closed socket, a cancellation, a
\* reconnect's close, connection attempt and delay.
CsTaskStep(g) ==
    \/ CsRecvStart(g)
    \/ CsRecvLost(g)
    \/ CsCancelled(g)
    \/ CsConnClosed(Recv(g))
    \/ CsOpened(Recv(g))
    \/ CsRefused(Recv(g))
    \/ CsBackoffOver(Recv(g))

SpecCtxFair ==
    /\ TagOnlyInit /\ [][CtxNext]_vars
    /\ WF_vars(CsHostStep)
    /\ \A g \in CsGens : WF_vars(CsTaskStep(g))

\* C33: a search in progress on a session that is no longer connected
\* (connection lost, or disconnected, before any response) is eventually
\* over: is_searching and is_loading become false again.
C33_FlagsCleared ==
    /\ (cs.is_searching /\ ~cs.is_connected) ~> ~cs.is_searching
    /\ (cs.is_loading /\ ~cs.is_connected) ~> ~cs.is_loading

\* The on_thinking_changed calls made on the code path of request c.
ThinkingCalls(c) == CallArgs(c, "on_thinking_changed")

\* C34: a send_message_streaming request that began thinking makes
\* on_thinking_changed(true) once, before any on_chunk_received, and
\* on_thinking_changed(false) at most once, after its last chunk and before
\* on_response_complete; once it has completed or the provider has failed it
\* (and stop_generation, which makes the call itself, was not involved) it
\* has made on_thinking_changed(false) exactly once.
C34_ThinkingProtocol ==
    \A c \in Callers :
        LET th == ThinkingCalls(c)
            ti == CallIdx(c, "on_thinking_changed")
        IN  th # <<>> =>
              /\ th[1] = BoolStr(TRUE)
              /\ \A i \in 2..Len(th) : th[i] = BoolStr(FALSE)
              /\ Len(th) <= 2
              /\ \A i \in ti, j \in CallIdx(c, "on_chunk_received") :
                     IF ai.calls[i].arg = BoolStr(TRUE) THEN i < j ELSE j < i
              /\ \A i \in ti, j \in CallIdx(c, "on_response_complete") : i < j
              /\ (aiReq[c].stop_k = -1 /\ (Finished(c) \/ aiReq[c].pc = "raised"))
                     => Len(th) = 2

\* The concatenation of the first i of the tokens q.
PrefixText(q, i) == Concat(SubSeq(q, 1, i))

\* C35: a request that was not stopped has, at every moment, made one
\* on_message_received call per content token received, the i-th carrying the
\* concatenation of its first i tokens.
C35_LegacyOncePerToken ==
    \A c \in Callers :
        (aiReq[c].pc \in {"streaming", "waiting", "returned"} /\ aiReq[c].stop_k = -1)
            => LET toks == TokensOf(aiReq[c].provided)
               IN  CallArgs(c, "on_message_received")
                       = [i \in 1..Len(toks) |-> PrefixText(toks, i)]

\* C36: a request of either kind that stop_generation found on the provider
\* accumulates at most one token received after the call, and appends no
\* assistant message to the history.
C36_StopAppliesToBoth ==
    \A c \in Callers :
        (aiReq[c].stop_k # -1 /\ ai.current_response_event = c)
            => LET toks == TokensOf(aiReq[c].provided)
                   k == aiReq[c].stop_k
               IN  /\ \E n \in {k, k + 1} :
                          /\ n <= Len(toks)
                          /\ ai.current_response_content = PrefixText(toks, n)
                   /\ Len(ai.message_history) = UserIndex(c)

(***************************************************************************)
(* Chat: the context window.  The session is connected and has a           *)
(* conversation behind it: exchanges completed exchanges (a user message,  *)
(* then the assistant's answer), the i-th with a question of i characters, *)
(* and possibly one more user message, of a request the provider failed.   *)
(***************************************************************************)
MaxExchanges == 6

Question(i) == [j \in 1..i |-> "q"]
Answer(i) == IF i % 2 = 1 THEN <<"a">> ELSE <<"b">>

\* message_history and last_messages after n exchanges.
RECURSIVE HistoryAfter(_)
HistoryAfter(n) ==
    IF n = 0 THEN <<>>
    ELSE HistoryAfter(n - 1) \o <<[role |-> "user", content |-> Question(n)],
                                  [role |-> "assistant", content |-> Answer(n)]>>

RECURSIVE LastMessagesAfter(_)
LastMessagesAfter(n) ==
    IF n = 0 THEN <<>>
    ELSE LastMessagesAfter(n - 1)
         \o (IF n > 1 THEN <<[message |-> Answer(n - 1), is_user |-> FALSE]>> ELSE <<>>)
         \o <<[message |-> Question(n), is_user |-> TRUE]>>

\* The manager after connect() and the conversation.
Conversed(n, failed) ==
    LET s == connect_done(connect_enter(AIInit(TRUE, TRUE)), TRUE, 1)
        lm == LastMessagesAfter(n)
    IN  [s EXCEPT
           !.message_history = HistoryAfter(n) \o
               (IF failed
                  THEN <<[role |-> "user", content |-> Question(n + 1)]>>
                  ELSE <<>>),
           !.last_messages =
               IF failed
                 THEN (IF n > 0
                         THEN Append(lm, [message |-> Answer(n), is_user |-> FALSE])
                         ELSE lm)
                      \o <<[message |-> Question(n + 1), is_user |-> TRUE]>>
                 ELSE lm,
           !.message_stream = IF failed \/ n = 0 THEN <<>> ELSE Answer(n),
           !.current_response_content = IF failed \/ n = 0 THEN <<>> ELSE Answer(n)]

ConnectedStart(s) ==
    /\ ai = s
    /\ aiReq = [c \in Callers |-> ReqIdle]
    /\ aiLoop = [l \in LoopIds |->
           IF l = 1 THEN [pc |-> "start", wait |-> 0] ELSE LoopNone]
    /\ aiEnv = [EnvInit EXCEPT !.connects = 1, !.last_op = "connect_returned"]
    /\ bk = BkIdle
    /\ TagStart
    /\ CsStart

WindowInit ==
    \E n \in 0..MaxExchanges, failed \in BOOLEAN : ConnectedStart(Conversed(n, failed))

WindowNext ==
    \/ \E c \in Callers, k \in Kinds, a \in ArgSets : SendCall(c, k, a)
    \/ \E c \in Callers, ch \in Chunks : StreamChunk(c, ch)

SpecWindow == WindowInit /\ [][WindowNext]_vars

\* Request c is handed to the provider in this step.
RequestSent(c) == aiReq[c].pc \in {"idle", "connecting"} /\ aiReq'[c].pc = "streaming"

PromptArgs ==
    {<<t, o, s, u, m>> : t \in Texts,
                         o \in {None, <<>>, <<"a">>},
                         s \in {None, <<>>, <<"b">>},
                         u \in {None, <<>>, <<"a", "b">>},
                         m \in BOOLEAN}

PromptNext == \E c \in Callers, k \in Kinds, a \in PromptArgs : SendEnter(c, k, a)

PromptInit == ConnectedStart(Conversed(0, FALSE))

SpecPrompt == PromptInit /\ [][PromptNext]_vars

\* One section of the prompt: nothing for a field that is None or empty.
Section(label, field) ==
    IF field = None \/ field = <<>> THEN <<>> ELSE <<label>> \o field

\* C39: the user message a request appends holds its text followed by the
\* sections of the fields that are present, in the order OCR text, selected
\* text, browser URL, analysis directive, each whole and behind its label.
C39_PromptSections ==
    [][\A c \in Callers :
           RequestSent(c) =>
               LET a == aiReq'[c].args
                   h == ai'.message_history
               IN  h[Len(h)].content =
                       a[1]
                       \o Section("\n\nScreen OCR Text: ", a[2])
                       \o Section("\n\nSelected Text: ", a[3])
                       \o Section("\n\nBrowser URL: ", a[4])
                       \o (IF a[5]
                             THEN <<"\n\nPlease provide a detailed and comprehensive analysis.">>
                             ELSE <<>>)
      ]_vars

\* A request with OCR text, an empty selection, a URL and the directive.
C39_Witness ==
    \E c \in Callers :
        /\ OnProvider(c)
        /\ aiReq[c].args = <<<<"q">>, <<"a">>, <<>>, <<"a", "b">>, TRUE>>
        /\ ai.message_history[Len(ai.message_history)].content =
               <<"q", "\n\nScreen OCR Text: ", "a", "\n\nBrowser URL: ", "a", "b",
                 "\n\nPlease provide a detailed and comprehensive analysis.">>

\* The connect() awaited by initialize opens its socket in this step and
\* delivers on_connection_changed(True).
InitializeOpensSocket ==
    /\ tgThread[Host].op = "initialize" /\ tgThread[Host].pc = "connecting"
    /\ tgEnv'.init_socket # NoSocket /\ tgEnv'.init_socket # tgEnv.init_socket

\* C38: when initialize opens its socket, its fetch has succeeded (the mirror
\* holds the fetched tags and on_tags_loaded was delivered); and no frame is
\* handled on that socket after a fetch that failed.
C38_FetchBeforeSocket ==
    [][/\ InitializeOpensSocket => ~tgEnv.init_fetch_failed
       /\ (tgEnv'.frames > tgEnv.frames /\ tg.websocket = tgEnv.init_socket)
              => ~tgEnv.init_fetch_failed
      ]_vars
====
